---- MODULE Spec2Model ----
(***************************************************************************)
(* Model of the TCP messaging module of rust-modules (src/rust-modules/tcp):*)
(* the client's three connection policies (client.rs), the message codec   *)
(* (protocol.rs) and the framed receive (client.rs / server.rs).           *)
(***************************************************************************)
EXTENDS Integers, Sequences, FiniteSets, TLC

VARIABLES
    call,        \* which connect_* function of TcpClient is running
    pc,          \* its position: "connect", "callback", "sleep", or how it ended
    delay_ms,    \* the local `delay_ms` of connect_forever / connect_until_success
    events,      \* history of what the call did: attempts, callbacks, sleeps
    header,      \* Option<MessageHeader>: the header built by MessageHeader::new
    header_buf,  \* Option<[u8; 9]>: a header as bytes (serialized, or off the network)
    decoded,     \* Option<Option<MessageHeader>>: what from_bytes returned, if called
    message,     \* Option<Message>: the message built by a Message constructor
    encoded,     \* Option<Vec<u8>>: what Message::to_bytes returned, if called
    side,        \* whose recv_message reads the stream: "client" or "server"
    stream,      \* every byte the peer puts on the connection, in order
    stream_end,  \* after those bytes the peer is "open" (silent), "closed" or "reset"
    rpos,        \* how many bytes of the stream have been read
    received,    \* outcome of the last recv_message
    file_meta,   \* Option<FileMeta>: the value built by FileMeta::new
    meta_buf,    \* Option<Vec<u8>>: metadata bytes (serialized, or the start of a payload)
    meta_out,    \* Option<Option<(FileMeta, usize)>>: what FileMeta::from_bytes returned
    meta_trip,   \* what one to_bytes/from_bytes round trip of a file name showed
    parsed,      \* Option<ParsedContent>: what parse_message_content returned
    file,        \* content of the file at `path`
    file_name,   \* its file name, as UTF-8 bytes
    method,      \* which send function runs: "send_file" or "send_file_chunked"
    send_pc,     \* its position: "start", "meta", "chunks", "done"
    file_pos,    \* read offset of the open file handle
    short_reads, \* how often file.read returned less than it could
    sent,        \* the messages the sending thread has sent, in order
    delivered,   \* what the recv_message calls of the reading thread returned, in order
    serialized,  \* do the callers let at most one send run on the connection at a time
    senders,     \* per sending thread: its send, the write_all calls it makes, how far it is
    owner,       \* for every byte of the stream, the thread whose send wrote it
    mode,        \* which accept loop of TcpServer runs: "run" or "run_threaded"
    listener_pc, \* where the thread in the accept loop is: "accept", "handler", "returned", "panicked"
    backlog,     \* clients that have connected and are not yet accepted, oldest first
    conns,       \* per client: "absent", "pending", "spawned", "handling", "blocked", "finished", "failed", "panicked"
    accept_log,  \* the clients accepted, in accept order
    handler_log, \* the clients handed to on_client, in call order
    results,     \* what the calls of on_client returned, in order
    accept_errors, \* how many times accept failed
    layout,      \* what building one File or Image message from a name and a content showed
    io_result,   \* what the running send_* call returned: "none" while it runs, "Ok", "Err"
    io_steps,    \* the file and socket operations the call has made, in order
    queried_size,\* send_file_chunked: file.metadata()?.len() when the call began
    file_changes, \* how often another process has changed the file during the call
    bind_calls,  \* the calls of bind, bind_default and bind_addr that returned, with their results
    listener_binds,\* the calls of TcpListener::bind made, with their outcomes
    tcp_servers, \* the addresses on which a TcpServer value exists
    threads      \* run_threaded: the threads spawned, each with the connection moved into it and the number of calls of the handler it has made

connVars == <<call, pc, delay_ms, events>>
headerVars == <<header, header_buf, decoded>>
messageVars == <<message, encoded>>
recvVars == <<side, stream, stream_end, rpos, received>>
metaVars == <<file_meta, meta_buf, meta_out, meta_trip>>
parseVars == <<parsed>>
sendVars == <<file, file_name, method, send_pc, file_pos, short_reads>>
orderVars == <<sent, delivered>>
shareVars == <<serialized, senders, owner>>
serverVars == <<mode, listener_pc, backlog, conns, accept_log, handler_log, results, accept_errors>>
layoutVars == <<layout>>
ioVars == <<io_result, io_steps, queried_size, file_changes>>
bindVars == <<bind_calls, listener_binds, tcp_servers>>
spawnVars == <<threads>>
vars == <<connVars, headerVars, messageVars, recvVars, metaVars, parseVars, sendVars, orderVars, shareVars, serverVars, layoutVars, ioVars, bindVars, spawnVars>>

\* what the steps of one part of the module leave alone
restConn == <<headerVars, messageVars, recvVars, metaVars, parseVars, sendVars, orderVars, shareVars, serverVars, layoutVars, ioVars, bindVars, spawnVars>>
restHeader == <<connVars, messageVars, recvVars, metaVars, parseVars, sendVars, orderVars, shareVars, serverVars, layoutVars, ioVars, bindVars, spawnVars>>
restMessage == <<connVars, headerVars, recvVars, metaVars, parseVars, sendVars, orderVars, shareVars, serverVars, layoutVars, ioVars, bindVars, spawnVars>>
restRecv == <<connVars, headerVars, messageVars, metaVars, parseVars, sendVars, orderVars, shareVars, serverVars, layoutVars, ioVars, bindVars, spawnVars>>
restMeta == <<connVars, headerVars, messageVars, recvVars, parseVars, sendVars, orderVars, shareVars, serverVars, layoutVars, ioVars, bindVars, spawnVars>>
restParse == <<connVars, headerVars, recvVars, metaVars, sendVars, orderVars, shareVars, serverVars, layoutVars, ioVars, bindVars, spawnVars>>
restSend == <<connVars, headerVars, messageVars, metaVars, parseVars, orderVars, shareVars, serverVars, layoutVars, ioVars, bindVars, spawnVars>>
restOrder == <<connVars, headerVars, messageVars, metaVars, parseVars, sendVars, shareVars, serverVars, layoutVars, ioVars, bindVars, spawnVars>>
restShare == <<connVars, headerVars, messageVars, metaVars, parseVars, sendVars, orderVars, serverVars, layoutVars, ioVars, bindVars, spawnVars>>
restServer == <<connVars, headerVars, messageVars, recvVars, metaVars, parseVars, sendVars, orderVars, shareVars, layoutVars, ioVars, bindVars, spawnVars>>
restLayout == <<connVars, headerVars, messageVars, recvVars, metaVars, parseVars, sendVars, orderVars, shareVars, serverVars, ioVars, bindVars, spawnVars>>
restIo == <<connVars, headerVars, messageVars, recvVars, metaVars, parseVars, orderVars, shareVars, serverVars, layoutVars, bindVars, spawnVars>>
restBind == <<connVars, headerVars, messageVars, recvVars, metaVars, parseVars, sendVars, orderVars, shareVars, serverVars, layoutVars, ioVars, spawnVars>>
restSpawn == <<connVars, headerVars, messageVars, recvVars, metaVars, parseVars, sendVars, orderVars, shareVars, layoutVars, ioVars, bindVars>>

----------------------------------------------------------------------------
(* tcp/config.rs *)

RECONNECT_INITIAL_MS == 1000
RECONNECT_MAX_MS == 30000
\* RECONNECT_MULTIPLIER: f64 = 1.5, kept exact as the fraction 3/2
RECONNECT_MULTIPLIER_NUM == 3
RECONNECT_MULTIPLIER_DEN == 2
CHUNK_SIZE == 8192
READ_TIMEOUT_SECS == 0
WRITE_TIMEOUT_SECS == 0
SERVER_DEFAULT_PORT == 8080
SERVER_DEFAULT_ADDR == "0.0.0.0"

(* bound of the model: events recorded per call *)
MaxEvents == 24

----------------------------------------------------------------------------
(* helpers *)

Min(a, b) == IF a <= b THEN a ELSE b

None == <<>>
Some(x) == <<x>>

Event(e, ms, lost) == [ev |-> e, ms |-> ms, lost |-> lost]

Last(s) == s[Len(s)]


----------------------------------------------------------------------------
(* protocol.rs: the codec *)

HEADER_SIZE == 9
FILE_META_SIZE == 2

(* bounds of the model: payload bytes and filename bytes per message *)
MaxLen == 3
MaxName == 2

\* all sequences over S of length at most n
RECURSIVE SeqsUpTo(_, _)
SeqsUpTo(S, n) ==
    IF n = 0 THEN {<<>>}
    ELSE LET shorter == SeqsUpTo(S, n - 1)
         IN  shorter \cup {Append(q, x) : q \in {r \in shorter : Len(r) = n - 1}, x \in S}

\* A u64 is kept at its full width as four 16-bit limbs, most significant
\* first: the value is v[1]*2^48 + v[2]*2^32 + v[3]*2^16 + v[4].

\* `n as u64` for a buffer length n (below 2^31 here)
U64(n) == <<0, 0, n \div 65536, n % 65536>>

\* the u64 as a count of bytes to read, when it is one the model can hold
IsSmall(v) == v[1] = 0 /\ v[2] = 0 /\ v[3] = 0
SmallValue(v) == v[4]

\* u64::to_be_bytes / u64::from_be_bytes
ToLeBytes(v) ==
    << v[4] % 256, v[4] \div 256, v[3] % 256, v[3] \div 256,
       v[2] % 256, v[2] \div 256, v[1] % 256, v[1] \div 256 >>
ToBeBytes(v) ==
    << v[1] \div 256, v[1] % 256, v[2] \div 256, v[2] % 256,
       v[3] \div 256, v[3] % 256, v[4] \div 256, v[4] % 256 >>
FromBeBytes(b) ==
    << b[1] * 256 + b[2], b[3] * 256 + b[4], b[5] * 256 + b[6], b[7] * 256 + b[8] >>

MessageTypes == {"String", "Bytes", "File", "Image", "VideoStream"}

\* MessageType::to_u8 (the enum discriminants)
ToU8FromZero(t) ==
    CASE t = "String" -> 0
      [] t = "Bytes" -> 1
      [] t = "File" -> 2
      [] t = "Image" -> 3
      [] t = "VideoStream" -> 4
ToU8(t) ==
    CASE t = "String" -> 1
      [] t = "Bytes" -> 2
      [] t = "File" -> 3
      [] t = "Image" -> 4
      [] t = "VideoStream" -> 5

\* MessageType::from_u8
FromU8Lenient(value) ==
    CASE value = 1 -> Some("String")
      [] value = 3 -> Some("File")
      [] value = 4 -> Some("Image")
      [] value = 5 -> Some("VideoStream")
      [] OTHER -> Some("Bytes")
FromU8(value) ==
    CASE value = 1 -> Some("String")
      [] value = 2 -> Some("Bytes")
      [] value = 3 -> Some("File")
      [] value = 4 -> Some("Image")
      [] value = 5 -> Some("VideoStream")
      [] OTHER -> None

\* MessageHeader::new
MessageHeaderNew(msg_type, data_len) == [msg_type |-> msg_type, data_len |-> data_len]

\* MessageHeader::to_bytes
HeaderToBytesLittleEndian(h) == <<ToU8(h.msg_type)>> \o ToLeBytes(h.data_len)
HeaderToBytes(h) == <<ToU8(h.msg_type)>> \o ToBeBytes(h.data_len)

\* MessageHeader::from_bytes
HeaderFromBytes(bytes) ==
    LET msg_type == FromU8(bytes[1])
    IN  IF msg_type = None THEN None
        ELSE Some(MessageHeaderNew(msg_type[1], FromBeBytes(SubSeq(bytes, 2, 9))))

\* FileMeta::new, FileMeta::to_bytes (`len as u16` keeps the low 16 bits)
FileMetaNew(filename) == [filename |-> filename]
FileMetaToBytes(meta) ==
    LET len == Len(meta.filename) % 65536
    IN  <<len \div 256, len % 256>> \o meta.filename

\* Message::string / bytes / file / image / video_frame
NewMessage(msg_type, data) ==
    [header |-> MessageHeaderNew(msg_type, U64(Len(data))), data |-> data]
MessageString(content) == NewMessage("String", content)
MessageBytes(data) == NewMessage("Bytes", data)
MessageFileContentLen(filename, content) ==
    [header |-> MessageHeaderNew("File", U64(Len(content))),
     data |-> FileMetaToBytes(FileMetaNew(filename)) \o content]
MessageFile(filename, content) ==
    NewMessage("File", FileMetaToBytes(FileMetaNew(filename)) \o content)
MessageImage(filename, content) ==
    NewMessage("Image", FileMetaToBytes(FileMetaNew(filename)) \o content)
MessageVideoFrame(frame_data) == NewMessage("VideoStream", frame_data)

\* Message::to_bytes
MessageToBytes(msg) == HeaderToBytes(msg.header) \o msg.data

\* UTF-8 as std::str::from_utf8 checks it: the length of the sequence a
\* lead byte announces (0: not a lead byte), and the bytes that may follow
Utf8Width(b) ==
    IF b < 128 THEN 1
    ELSE IF b \in 194..223 THEN 2
    ELSE IF b \in 224..239 THEN 3
    ELSE IF b \in 240..244 THEN 4
    ELSE 0
Utf8Continuation(b) == b \in 128..191
Utf8SecondOk(lead, b) ==
    CASE lead = 224 -> b \in 160..191
      [] lead = 237 -> b \in 128..159
      [] lead = 240 -> b \in 144..191
      [] lead = 244 -> b \in 128..143
      [] OTHER -> Utf8Continuation(b)

\* how many bytes at position i are a well-formed start of one sequence
Utf8GoodBytes(s, i) ==
    LET w == Utf8Width(s[i])
    IN  IF w <= 1 THEN w
        ELSE IF i + 1 > Len(s) \/ ~Utf8SecondOk(s[i], s[i + 1]) THEN 1
        ELSE IF w = 2 THEN 2
        ELSE IF i + 2 > Len(s) \/ ~Utf8Continuation(s[i + 2]) THEN 2
        ELSE IF w = 3 THEN 3
        ELSE IF i + 3 > Len(s) \/ ~Utf8Continuation(s[i + 3]) THEN 3
        ELSE 4
Utf8Complete(s, i) == Utf8Width(s[i]) > 0 /\ Utf8GoodBytes(s, i) = Utf8Width(s[i])

\* String::from_utf8(..).ok(): is the whole byte string well-formed. Every
\* byte that starts a sequence starts a complete one, and every continuation
\* byte lies inside the sequence of the nearest byte before it that starts one.
Utf8Valid(s) ==
    \A i \in 1..Len(s) :
        IF Utf8Continuation(s[i])
        THEN \E d \in 1..3 :
                /\ i - d >= 1
                /\ Utf8Width(s[i - d]) > d
                /\ \A k \in 1..(d - 1) : Utf8Continuation(s[i - k])
        ELSE Utf8Complete(s, i)

\* String::from_utf8_lossy: every ill-formed part becomes U+FFFD (EF BF BD)
RECURSIVE Utf8LossyFrom(_, _)
Utf8LossyFrom(s, i) ==
    IF i > Len(s) THEN <<>>
    ELSE IF Utf8Complete(s, i)
    THEN SubSeq(s, i, i + Utf8Width(s[i]) - 1) \o Utf8LossyFrom(s, i + Utf8Width(s[i]))
    ELSE LET bad == IF Utf8GoodBytes(s, i) = 0 THEN 1 ELSE Utf8GoodBytes(s, i)
         IN  <<239, 191, 189>> \o Utf8LossyFrom(s, i + bad)
Utf8Lossy(s) == Utf8LossyFrom(s, 1)

\* FileMeta::from_bytes
FileMetaFromBytesUnchecked(bytes) ==
    IF Len(bytes) < FILE_META_SIZE THEN None
    ELSE LET len == bytes[1] * 256 + bytes[2]
             filename == SubSeq(bytes, 3, Min(2 + len, Len(bytes)))
         IN  IF ~Utf8Valid(filename) THEN None
             ELSE Some(<<[filename |-> filename], FILE_META_SIZE + len>>)
FileMetaFromBytes(bytes) ==
    IF Len(bytes) < FILE_META_SIZE THEN None
    ELSE LET len == bytes[1] * 256 + bytes[2]
             filename == SubSeq(bytes, 3, 2 + len)
         IN  IF Len(bytes) < FILE_META_SIZE + len THEN None
             ELSE IF ~Utf8Valid(filename) THEN None
             ELSE Some(<<[filename |-> filename], FILE_META_SIZE + len>>)

\* ParsedContent, and parse_message_content
Parsed(kind, filename, data) == [kind |-> kind, filename |-> filename, data |-> data]
ParseMessageContentStrict(msg) ==
    LET t == msg.header.msg_type
        m == FileMetaFromBytes(msg.data)
    IN  CASE t = "String" -> Parsed("String", <<>>, Utf8Lossy(msg.data))
          [] t = "Bytes" -> Parsed("Bytes", <<>>, msg.data)
          [] t \in {"File", "Image"} ->
                IF m # None
                THEN Parsed(t, m[1][1].filename, SubSeq(msg.data, m[1][2] + 1, Len(msg.data)))
                ELSE Parsed("Error", <<>>, <<>>)
          [] t = "VideoStream" -> Parsed("VideoFrame", <<>>, msg.data)
ParseMessageContent(msg) ==
    LET t == msg.header.msg_type
        m == FileMetaFromBytes(msg.data)
    IN  CASE t = "String" -> Parsed("String", <<>>, Utf8Lossy(msg.data))
          [] t = "Bytes" -> Parsed("Bytes", <<>>, msg.data)
          [] t \in {"File", "Image"} ->
                IF m # None
                THEN Parsed(t, m[1][1].filename, SubSeq(msg.data, m[1][2] + 1, Len(msg.data)))
                ELSE Parsed("Bytes", <<>>, msg.data)
          [] t = "VideoStream" -> Parsed("VideoFrame", <<>>, msg.data)

\* inputs: text is UTF-8 bytes ('h', 'i'), file names use 'a' and '.',
\* binary payloads use the two extreme byte values
TextInputs == SeqsUpTo({104, 105}, MaxLen)
DataInputs == SeqsUpTo({0, 255}, MaxLen)
NameInputs == SeqsUpTo({97, 46}, MaxName)

\* the documented example: the file "a.txt" holding "hi"
ScenarioNames == {<<97, 46, 116, 120, 116>>}
ScenarioContents == {<<104, 105>>}

\* lengths for a header: every small one, and values that need each of the
\* eight length bytes
LengthInputs ==
    {U64(n) : n \in 0..MaxLen}
        \cup {U64(10), U64(255), U64(256), U64(65535), U64(65536), U64(16909060)}
        \cup {<<0, 1, 0, 0>>, <<258, 772, 1286, 1800>>, <<32768, 0, 0, 0>>,
              <<65535, 65535, 65535, 65535>>}

\* nine bytes as a peer can send them: any tag byte of interest, then eight
\* length bytes that are all equal or all zero but one
TagInputs == {0, 1, 2, 3, 4, 5, 6, 128, 255}
LengthByteInputs ==
    {[i \in 1..8 |-> x] : x \in {0, 255}}
        \cup {[i \in 1..8 |-> IF i = k THEN x ELSE 0] : k \in 1..8, x \in {1, 128, 255}}
RawHeaderInputs == {<<tag>> \o len : tag \in TagInputs, len \in LengthByteInputs}

\* file names at the limit of the two-byte length field
LongNameInputs == {[i \in 1..n |-> 97] : n \in {65535, 65536, 65537}}

\* payloads as a peer can send them: a length field of 0, 1, 2 or >= 256,
\* name and content bytes that are ASCII ('a') or never valid UTF-8 (0xFF)
RawPayloadInputs == SeqsUpTo({0, 1, 2, 97, 255}, MaxLen + 1)
RawMessageInputs ==
    {[header |-> MessageHeaderNew(t, U64(Len(data))), data |-> data] :
        t \in MessageTypes, data \in RawPayloadInputs}

----------------------------------------------------------------------------
(* client.rs: connection policies *)

\* apply_timeouts: a socket option is set only for a non-zero timeout;
\* set_ok is whether the OS accepts the option.
ApplyTimeouts(set_ok) ==
    IF READ_TIMEOUT_SECS > 0 /\ ~set_ok THEN "Err"
    ELSE IF WRITE_TIMEOUT_SECS > 0 /\ ~set_ok THEN "Err"
    ELSE "Ok"

\* (delay_ms as f64 * RECONNECT_MULTIPLIER) as u64, then .min(RECONNECT_MAX_MS).
\* The product is exact in f64 for these magnitudes and `as u64` truncates.
NextDelayNoCap(d) == (d * RECONNECT_MULTIPLIER_NUM) \div RECONNECT_MULTIPLIER_DEN
NextDelayNoFloor(d) == Min(d * 2, RECONNECT_MAX_MS)
NextDelay(d) ==
    Min((d * RECONNECT_MULTIPLIER_NUM) \div RECONNECT_MULTIPLIER_DEN, RECONNECT_MAX_MS)

\* connect_once: where the call ends after its attempt
OnceRetry(connected, timeouts) ==
    IF connected /\ timeouts = "Ok" THEN "connected" ELSE "connect"
OnceResult(connected, timeouts) ==
    IF connected /\ timeouts = "Ok" THEN "connected" ELSE "failed"

\* connect_until_success: where the loop goes after its attempt
UntilGiveUp(connected) == IF connected THEN "connected" ELSE "failed"
UntilAfterAttempt(connected) == IF connected THEN "connected" ELSE "sleep"

\* connect_forever: `delay_ms = config::RECONNECT_INITIAL_MS` in Ok(stream)
ForeverDelayKept(d) == d
ForeverDelayOnConnect(d) == RECONNECT_INITIAL_MS

\* connect_forever: `if !on_connected(&mut client) { break; }`
ForeverIgnoreFalse(ret) == "sleep"
ForeverAfterCallback(ret) ==
    CASE ret = "false" -> "stopped"
      [] ret = "true" -> "sleep"
      [] ret = "panic" -> "panicked"

\* what the callback can do: with a live connection it returns true or false;
\* when the connection is lost under it, it may also handle the error itself
\* or, like the module's own example (send_string(..).unwrap()), panic.
CallbackOutcomes(lost) ==
    IF lost THEN {"true", "false", "panic"} ELSE {"true", "false"}

----------------------------------------------------------------------------
(* client.rs / server.rs: recv_message *)

NoReceive == [result |-> "none", error |-> "", msg |-> None, start |-> 0, pos |-> 0]

\* the io::Error a read meets where the stream ends
StreamError == IF stream_end = "reset" THEN "ConnectionReset" ELSE "UnexpectedEof"

\* Read::read_exact of n bytes at read position pos: all n bytes, or an error
\* once the stream has ended (what was left is consumed and dropped)
ReadOnce(pos, n) ==
    LET m == Min(n, Len(stream) - pos)
    IN  [ok |-> TRUE,
         data |-> SubSeq(stream, pos + 1, pos + m) \o [i \in 1..(n - m) |-> 0],
         pos |-> pos + m]
ReadExact(pos, n) ==
    IF Len(stream) - pos >= n
    THEN [ok |-> TRUE, data |-> SubSeq(stream, pos + 1, pos + n), pos |-> pos + n]
    ELSE [ok |-> FALSE, data |-> <<>>, pos |-> Len(stream)]

Received(result, error, msg, start, pos) ==
    [result |-> result, error |-> error, msg |-> msg, start |-> start, pos |-> pos]

\* TcpClient::recv_message as it would be if it skipped what the peer has
\* sent after a header it cannot decode
RecvMessageResync(pos) ==
    LET head == ReadExact(pos, HEADER_SIZE)
        hdr == HeaderFromBytes(head.data)
        len == hdr[1].data_len
        body == ReadExact(head.pos, SmallValue(len))
    IN  IF ~head.ok THEN Received("Err", StreamError, None, pos, head.pos)
        ELSE IF hdr = None THEN Received("Err", "InvalidData", None, pos, Len(stream))
        ELSE IF len[1] >= 32768 THEN Received("panic", "capacity overflow", None, pos, head.pos)
        ELSE IF ~IsSmall(len) THEN Received("Err", StreamError, None, pos, Len(stream))
        ELSE IF ~body.ok THEN Received("Err", StreamError, None, pos, body.pos)
        ELSE Received("Ok", "", Some([header |-> hdr[1], data |-> body.data]), pos, body.pos)

\* TcpClient::recv_message, called with the read position at pos.
\* `vec![0u8; n]` panics (capacity overflow) for n above isize::MAX; usize is
\* 64 bits wide, so `data_len as usize` keeps the value.
RecvMessage(pos) ==
    LET head == ReadExact(pos, HEADER_SIZE)
        hdr == HeaderFromBytes(head.data)
        len == hdr[1].data_len
        body == ReadExact(head.pos, SmallValue(len))
    IN  IF ~head.ok THEN Received("Err", StreamError, None, pos, head.pos)
        ELSE IF hdr = None THEN Received("Err", "InvalidData", None, pos, head.pos)
        ELSE IF len[1] >= 32768 THEN Received("panic", "capacity overflow", None, pos, head.pos)
        ELSE IF ~IsSmall(len) THEN Received("Err", StreamError, None, pos, Len(stream))
        ELSE IF ~body.ok THEN Received("Err", StreamError, None, pos, body.pos)
        ELSE Received("Ok", "", Some([header |-> hdr[1], data |-> body.data]), pos, body.pos)

\* ClientConnection::recv_message (the same code on the server side)
ConnRecvMessage(pos) ==
    LET head == ReadExact(pos, HEADER_SIZE)
        hdr == HeaderFromBytes(head.data)
        len == hdr[1].data_len
        body == ReadExact(head.pos, SmallValue(len))
    IN  IF ~head.ok THEN Received("Err", StreamError, None, pos, head.pos)
        ELSE IF hdr = None THEN Received("Err", "InvalidData", None, pos, head.pos)
        ELSE IF len[1] >= 32768 THEN Received("panic", "capacity overflow", None, pos, head.pos)
        ELSE IF ~IsSmall(len) THEN Received("Err", StreamError, None, pos, Len(stream))
        ELSE IF ~body.ok THEN Received("Err", StreamError, None, pos, body.pos)
        ELSE Received("Ok", "", Some([header |-> hdr[1], data |-> body.data]), pos, body.pos)

\* recv_message blocks in read_exact while the stream is open and the bytes
\* it waits for have not arrived: it ends only when this holds
RecvReturns(pos) ==
    IF stream_end # "open" THEN TRUE
    ELSE IF Len(stream) - pos < HEADER_SIZE THEN FALSE
    ELSE LET hdr == HeaderFromBytes(SubSeq(stream, pos + 1, pos + HEADER_SIZE))
         IN  IF hdr = None THEN TRUE
             ELSE IF hdr[1].data_len[1] >= 32768 THEN TRUE
             ELSE /\ IsSmall(hdr[1].data_len)
                  /\ Len(stream) - pos - HEADER_SIZE >= SmallValue(hdr[1].data_len)

\* what a peer can have sent when recv_message is called: a header announcing
\* any length, followed by more or fewer bytes than announced, cut anywhere
StreamFrames ==
    {<<tag>> \o ToBeBytes(len) \o data :
        tag \in {0, 1, 3, 5, 6},
        len \in {U64(n) : n \in 0..MaxLen} \cup {U64(65536), <<0, 1, 0, 0>>, <<65535, 0, 0, 0>>},
        data \in SeqsUpTo({0, 255}, MaxLen + 1)}
StreamInputs == UNION {{SubSeq(f, 1, k) : k \in 0..Len(f)} : f \in StreamFrames}

----------------------------------------------------------------------------
(* states in which one part of the module is not in use *)

\* no connect_* call is running
ConnIdle ==
    /\ call = "none"
    /\ pc = "idle"
    /\ delay_ms = 0
    /\ events = <<>>

\* no header or message is being encoded or decoded, nothing is being received
HeaderIdle == header = None /\ header_buf = None /\ decoded = None
MessageIdle == message = None /\ encoded = None
RecvIdle ==
    /\ side = "none"
    /\ stream = <<>>
    /\ stream_end = "open"
    /\ rpos = 0
    /\ received = NoReceive

MetaIdle == file_meta = None /\ meta_buf = None /\ meta_out = None /\ meta_trip = None
ParseIdle == parsed = None
SpawnIdle == threads = <<>>
BindIdle == bind_calls = <<>> /\ listener_binds = <<>> /\ tcp_servers = {}
IoIdle == io_result = "none" /\ io_steps = <<>> /\ queried_size = 0 /\ file_changes = 0
LayoutIdle == layout = None
ServerIdle == mode = "none" /\ listener_pc = "idle" /\ backlog = <<>> /\ conns = <<>> /\ accept_log = <<>> /\ handler_log = <<>> /\ results = <<>> /\ accept_errors = 0
ShareIdle == serialized = FALSE /\ senders = <<>> /\ owner = <<>>
OrderIdle == sent = <<>> /\ delivered = <<>>
SendIdle == file = <<>> /\ file_name = <<>> /\ method = "none" /\ send_pc = "idle" /\ file_pos = 0 /\ short_reads = 0

Init ==
    /\ call \in {"connect_once", "connect_forever", "connect_until_success"}
    /\ pc = "connect"
    /\ delay_ms = IF call = "connect_once" THEN 0 ELSE RECONNECT_INITIAL_MS
    /\ events = <<>>
    /\ HeaderIdle
    /\ MessageIdle
    /\ RecvIdle
    /\ MetaIdle
    /\ ParseIdle
    /\ SendIdle
    /\ OrderIdle
    /\ ShareIdle
    /\ ServerIdle
    /\ LayoutIdle
    /\ IoIdle
    /\ BindIdle
    /\ SpawnIdle

ConnectOnce ==
    /\ call = "connect_once"
    /\ pc = "connect"
    /\ Len(events) < MaxEvents
    /\ \E connected \in BOOLEAN, set_ok \in BOOLEAN :
        /\ pc' = OnceResult(connected, ApplyTimeouts(set_ok))
        /\ events' = Append(events,
               Event(IF connected THEN "connect_ok" ELSE "connect_err", 0, FALSE))
    /\ UNCHANGED <<call, delay_ms, restConn>>

UntilConnect ==
    /\ call = "connect_until_success"
    /\ pc = "connect"
    /\ Len(events) < MaxEvents
    /\ \E connected \in BOOLEAN :
        /\ pc' = UntilAfterAttempt(connected)
        /\ events' = Append(events,
               Event(IF connected THEN "connect_ok" ELSE "connect_err", 0, FALSE))
    /\ UNCHANGED <<call, delay_ms, restConn>>

UntilSleep ==
    /\ call = "connect_until_success"
    /\ pc = "sleep"
    /\ Len(events) < MaxEvents
    /\ events' = Append(events, Event("sleep", delay_ms, FALSE))
    /\ delay_ms' = NextDelay(delay_ms)
    /\ pc' = "connect"
    /\ UNCHANGED <<call, restConn>>

\* a failed apply_timeouts is only printed in the two retry loops, so it
\* changes nothing there
ForeverConnect ==
    /\ call = "connect_forever"
    /\ pc = "connect"
    /\ Len(events) < MaxEvents
    /\ \E connected \in BOOLEAN :
        IF connected
        THEN /\ delay_ms' = ForeverDelayOnConnect(delay_ms)
             /\ pc' = "callback"
             /\ events' = Append(events, Event("connect_ok", 0, FALSE))
        ELSE /\ delay_ms' = delay_ms
             /\ pc' = "sleep"
             /\ events' = Append(events, Event("connect_err", 0, FALSE))
    /\ UNCHANGED <<call, restConn>>

ForeverCallback ==
    /\ call = "connect_forever"
    /\ pc = "callback"
    /\ Len(events) < MaxEvents
    /\ \E lost \in BOOLEAN :
        \E ret \in CallbackOutcomes(lost) :
            /\ pc' = ForeverAfterCallback(ret)
            /\ events' = Append(events, Event("callback_" \o ret, 0, lost))
    /\ UNCHANGED <<call, delay_ms, restConn>>

ForeverSleep ==
    /\ call = "connect_forever"
    /\ pc = "sleep"
    /\ Len(events) < MaxEvents
    /\ events' = Append(events, Event("sleep", delay_ms, FALSE))
    /\ delay_ms' = NextDelay(delay_ms)
    /\ pc' = "connect"
    /\ UNCHANGED <<call, restConn>>

Next ==
    \/ ConnectOnce
    \/ UntilConnect
    \/ UntilSleep
    \/ ForeverConnect
    \/ ForeverCallback
    \/ ForeverSleep

Spec == Init /\ [][Next]_vars

----------------------------------------------------------------------------
(* MessageHeader: building, serializing and parsing headers *)

InitHeader ==
    ConnIdle /\ HeaderIdle /\ MessageIdle /\ RecvIdle /\ MetaIdle /\ ParseIdle /\ SendIdle /\ OrderIdle /\ ShareIdle /\ ServerIdle /\ LayoutIdle /\ IoIdle /\ BindIdle /\ SpawnIdle

HeaderNew ==
    /\ \E msg_type \in MessageTypes, data_len \in LengthInputs :
        header' = Some(MessageHeaderNew(msg_type, data_len))
    /\ header_buf' = None
    /\ decoded' = None
    /\ UNCHANGED restHeader

HeaderSerialize ==
    /\ header # None
    /\ header_buf' = Some(HeaderToBytes(header[1]))
    /\ decoded' = None
    /\ UNCHANGED <<header, restHeader>>

HeaderArrives ==
    /\ \E bytes \in RawHeaderInputs : header_buf' = Some(bytes)
    /\ header' = None
    /\ decoded' = None
    /\ UNCHANGED restHeader

HeaderParse ==
    /\ header_buf # None
    /\ decoded' = Some(HeaderFromBytes(header_buf[1]))
    /\ UNCHANGED <<header, header_buf, restHeader>>

NextHeader ==
    \/ HeaderNew
    \/ HeaderSerialize
    \/ HeaderArrives
    \/ HeaderParse

SpecHeader == InitHeader /\ [][NextHeader]_vars

----------------------------------------------------------------------------
(* Message: the five constructors and to_bytes *)

InitMessage ==
    ConnIdle /\ HeaderIdle /\ MessageIdle /\ RecvIdle /\ MetaIdle /\ ParseIdle /\ SendIdle /\ OrderIdle /\ ShareIdle /\ ServerIdle /\ LayoutIdle /\ IoIdle /\ BindIdle /\ SpawnIdle

BuildString ==
    /\ \E content \in TextInputs : message' = Some(MessageString(content))
    /\ encoded' = None
    /\ UNCHANGED restMessage

BuildBytes ==
    /\ \E data \in DataInputs : message' = Some(MessageBytes(data))
    /\ encoded' = None
    /\ UNCHANGED restMessage

BuildFile ==
    /\ \E filename \in NameInputs \cup ScenarioNames, content \in DataInputs \cup ScenarioContents :
        message' = Some(MessageFile(filename, content))
    /\ encoded' = None
    /\ UNCHANGED restMessage

BuildImage ==
    /\ \E filename \in NameInputs \cup ScenarioNames, content \in DataInputs \cup ScenarioContents :
        message' = Some(MessageImage(filename, content))
    /\ encoded' = None
    /\ UNCHANGED restMessage

BuildVideoFrame ==
    /\ \E frame_data \in DataInputs : message' = Some(MessageVideoFrame(frame_data))
    /\ encoded' = None
    /\ UNCHANGED restMessage

Serialize ==
    /\ message # None
    /\ encoded' = Some(MessageToBytes(message[1]))
    /\ UNCHANGED <<message, restMessage>>

\* Message::file / Message::image of a name of any length, and to_bytes of
\* the result; the state keeps what the caller can observe of the message
MessageLayout(kind, filename, content) ==
    LET msg == IF kind = "File" THEN MessageFile(filename, content)
               ELSE MessageImage(filename, content)
        bytes == MessageToBytes(msg)
    IN  [kind |-> kind,
         name_len |-> Len(filename),
         content_len |-> Len(content),
         tag |-> bytes[1],
         data_len |-> msg.header.data_len,
         payload_len |-> Len(msg.data),
         length_field |-> msg.data[1] * 256 + msg.data[2],
         name_follows |-> SubSeq(msg.data, 3, 2 + Len(filename)) = filename,
         content_follows |-> SubSeq(msg.data, 3 + Len(filename), Len(msg.data)) = content,
         as_file |-> msg.data = MessageFile(filename, content).data
                     /\ msg.header.data_len = MessageFile(filename, content).header.data_len]

BuildLayout ==
    /\ message = None
    /\ layout = None
    /\ \E kind \in {"File", "Image"},
          filename \in NameInputs \cup ScenarioNames \cup LongNameInputs,
          content \in DataInputs \cup ScenarioContents :
        layout' = Some(MessageLayout(kind, filename, content))
    /\ UNCHANGED restLayout

NextMessage ==
    \/ BuildString
    \/ BuildBytes
    \/ BuildFile
    \/ BuildImage
    \/ BuildVideoFrame
    \/ Serialize

SpecMessage == InitMessage /\ [][NextMessage]_vars

\* File messages built and serialized, or the layout of one message observed
InitLayout == InitMessage

NextLayout ==
    \/ BuildLayout
    \/ layout = None /\ BuildFile
    \/ layout = None /\ Serialize

SpecLayout == InitLayout /\ [][NextLayout]_vars

----------------------------------------------------------------------------
(* recv_message on an established connection *)

InitRecv ==
    /\ ConnIdle
    /\ HeaderIdle
    /\ MessageIdle
    /\ side \in {"client", "server"}
    /\ stream \in StreamInputs
    /\ stream_end \in {"open", "closed", "reset"}
    /\ rpos = 0
    /\ received = NoReceive
    /\ MetaIdle
    /\ ParseIdle
    /\ SendIdle
    /\ OrderIdle
    /\ ShareIdle
    /\ ServerIdle
    /\ LayoutIdle
    /\ IoIdle
    /\ BindIdle
    /\ SpawnIdle

ClientRecv ==
    /\ side = "client"
    /\ received.result # "panic"
    /\ RecvReturns(rpos)
    /\ received' = RecvMessage(rpos)
    /\ rpos' = received'.pos
    /\ UNCHANGED <<side, stream, stream_end, restRecv>>

ServerRecv ==
    /\ side = "server"
    /\ received.result # "panic"
    /\ RecvReturns(rpos)
    /\ received' = ConnRecvMessage(rpos)
    /\ rpos' = received'.pos
    /\ UNCHANGED <<side, stream, stream_end, restRecv>>

NextRecv ==
    \/ ClientRecv
    \/ ServerRecv

SpecRecv == InitRecv /\ [][NextRecv]_vars

----------------------------------------------------------------------------
(* FileMeta: building, serializing and parsing file metadata *)

InitMeta ==
    /\ ConnIdle
    /\ HeaderIdle
    /\ MessageIdle
    /\ RecvIdle
    /\ ParseIdle
    /\ file_meta = None
    /\ meta_buf \in {None} \cup {Some(bytes) : bytes \in RawPayloadInputs}
    /\ meta_out = None
    /\ meta_trip = None
    /\ SendIdle
    /\ OrderIdle
    /\ ShareIdle
    /\ ServerIdle
    /\ LayoutIdle
    /\ IoIdle
    /\ BindIdle
    /\ SpawnIdle

MetaNew ==
    /\ file_meta = None
    /\ meta_buf = None
    /\ meta_trip = None
    /\ \E filename \in NameInputs :
        file_meta' = Some(FileMetaNew(filename))
    /\ UNCHANGED <<meta_buf, meta_out, meta_trip, restMeta>>

MetaSerialize ==
    /\ file_meta # None
    /\ meta_buf = None
    /\ meta_buf' = Some(FileMetaToBytes(file_meta[1]))
    /\ UNCHANGED <<file_meta, meta_out, meta_trip, restMeta>>

MetaParse ==
    /\ meta_buf # None
    /\ meta_out = None
    /\ meta_out' = Some(FileMetaFromBytes(meta_buf[1]))
    /\ UNCHANGED <<file_meta, meta_buf, meta_trip, restMeta>>

\* FileMeta::new(name).to_bytes() handed to FileMeta::from_bytes in one go,
\* for names of any length; the state keeps what the caller can observe
MetaTrip(filename) ==
    LET bytes == FileMetaToBytes(FileMetaNew(filename))
        out == FileMetaFromBytes(bytes)
    IN  [name_len |-> Len(filename),
         length_field |-> bytes[1] * 256 + bytes[2],
         returned |-> IF out = None THEN "None" ELSE "Some",
         same_name |-> out # None /\ out[1][1].filename = filename,
         bytes_consumed |-> IF out = None THEN 0 ELSE out[1][2]]

MetaRoundTrip ==
    /\ file_meta = None
    /\ meta_buf = None
    /\ meta_trip = None
    /\ \E filename \in NameInputs \cup LongNameInputs :
        meta_trip' = Some(MetaTrip(filename))
    /\ UNCHANGED <<file_meta, meta_buf, meta_out, restMeta>>

NextMeta ==
    \/ MetaNew
    \/ MetaSerialize
    \/ MetaParse
    \/ MetaRoundTrip

SpecMeta == InitMeta /\ [][NextMeta]_vars

----------------------------------------------------------------------------
(* parse_message_content on a received message *)

InitParse ==
    /\ ConnIdle
    /\ HeaderIdle
    /\ RecvIdle
    /\ MetaIdle
    /\ message \in {Some(m) : m \in RawMessageInputs}
    /\ encoded = None
    /\ parsed = None
    /\ SendIdle
    /\ OrderIdle
    /\ ShareIdle
    /\ ServerIdle
    /\ LayoutIdle
    /\ IoIdle
    /\ BindIdle
    /\ SpawnIdle

ParseContent ==
    /\ message # None
    /\ parsed' = Some(ParseMessageContent(message[1]))
    /\ UNCHANGED <<messageVars, restParse>>

NextParse == ParseContent

SpecParse == InitParse /\ [][NextParse]_vars

----------------------------------------------------------------------------
(* send_file and send_file_chunked on one connection, read by the peer *)

MaxShortReads == 1

\* file sizes around the chunk size; byte i of a file is i mod 251, so that
\* no two chunks of a file are alike
FileSizes ==
    {0, 1, CHUNK_SIZE - 1, CHUNK_SIZE, CHUNK_SIZE + 1, 2 * CHUNK_SIZE, 2 * CHUNK_SIZE + 1}
FileInputs == {[i \in 1..n |-> i % 251] : n \in FileSizes}
FileNameInputs == {<<97>>, <<97, 46, 97>>}

\* send_file_chunked: the header it builds from the metadata and the file size
ChunkedHeaderFileSizeOnly(meta_bytes, file_size) ==
    MessageHeaderNew("File", U64(file_size))
ChunkedHeader(meta_bytes, file_size) ==
    MessageHeaderNew("File", U64(Len(meta_bytes) + file_size))

\* file.read(&mut buffer): how many bytes one call may return with `remaining`
\* bytes left in the file (0 only at the end of the file)
ReadSizes(remaining) ==
    LET full == Min(CHUNK_SIZE, remaining)
    IN  {full} \cup
        IF short_reads < MaxShortReads
        THEN {n \in {1, CHUNK_SIZE - 1} : n < full}
        ELSE {}

InitChunked ==
    /\ ConnIdle
    /\ HeaderIdle
    /\ MessageIdle
    /\ MetaIdle
    /\ ParseIdle
    /\ side = "server"
    /\ stream = <<>>
    /\ stream_end = "open"
    /\ rpos = 0
    /\ received = NoReceive
    /\ file \in FileInputs
    /\ file_name \in FileNameInputs
    /\ method \in {"send_file", "send_file_chunked"}
    /\ send_pc = "start"
    /\ file_pos = 0
    /\ short_reads = 0
    /\ OrderIdle
    /\ ShareIdle
    /\ ServerIdle
    /\ LayoutIdle
    /\ IoIdle
    /\ BindIdle
    /\ SpawnIdle

\* TcpClient::send_file: the whole file read, one message, one send_raw
SendFile ==
    /\ method = "send_file"
    /\ send_pc = "start"
    /\ stream' = stream \o MessageToBytes(MessageFile(file_name, file))
    /\ send_pc' = "done"
    /\ file_pos' = Len(file)
    /\ UNCHANGED <<file, file_name, method, short_reads>>
    /\ UNCHANGED <<side, stream_end, rpos, received, restSend>>

\* TcpClient::send_file_chunked: send_raw(&header.to_bytes())
ChunkedSendHeader ==
    /\ method = "send_file_chunked"
    /\ send_pc = "start"
    /\ stream' = stream \o
            HeaderToBytes(ChunkedHeader(FileMetaToBytes(FileMetaNew(file_name)), Len(file)))
    /\ send_pc' = "meta"
    /\ UNCHANGED <<file, file_name, method, file_pos, short_reads>>
    /\ UNCHANGED <<side, stream_end, rpos, received, restSend>>

\* send_raw(&meta_bytes)
ChunkedSendMeta ==
    /\ method = "send_file_chunked"
    /\ send_pc = "meta"
    /\ stream' = stream \o FileMetaToBytes(FileMetaNew(file_name))
    /\ send_pc' = "chunks"
    /\ UNCHANGED <<file, file_name, method, file_pos, short_reads>>
    /\ UNCHANGED <<side, stream_end, rpos, received, restSend>>

\* one turn of the loop: file.read, then send_raw(&buffer[..bytes_read])
ChunkedSendChunk ==
    /\ method = "send_file_chunked"
    /\ send_pc = "chunks"
    /\ file_pos < Len(file)
    /\ \E bytes_read \in ReadSizes(Len(file) - file_pos) :
        /\ stream' = stream \o SubSeq(file, file_pos + 1, file_pos + bytes_read)
        /\ file_pos' = file_pos + bytes_read
        /\ short_reads' = IF bytes_read < Min(CHUNK_SIZE, Len(file) - file_pos)
                          THEN short_reads + 1
                          ELSE short_reads
    /\ UNCHANGED <<file, file_name, method, send_pc>>
    /\ UNCHANGED <<side, stream_end, rpos, received, restSend>>

\* the last turn: bytes_read == 0, break, Ok(())
ChunkedEnd ==
    /\ method = "send_file_chunked"
    /\ send_pc = "chunks"
    /\ file_pos = Len(file)
    /\ send_pc' = "done"
    /\ UNCHANGED <<file, file_name, method, file_pos, short_reads>>
    /\ UNCHANGED <<recvVars, restSend>>

NextChunked ==
    \/ SendFile
    \/ ChunkedSendHeader
    \/ ChunkedSendMeta
    \/ ChunkedSendChunk
    \/ ChunkedEnd
    \/ ServerRecv

SpecChunked == InitChunked /\ [][NextChunked]_vars

----------------------------------------------------------------------------
(* The client's calls on an established connection when the socket or the
   file fails, and send_file_chunked while another process changes the file *)

MaxFileChanges == 1

IoMethods ==
    {"send_string", "send_bytes", "send_file", "send_image", "send_video_frame",
     "send_file_chunked"}
IoFileSizes == {0, 1, CHUNK_SIZE, CHUNK_SIZE + 1}
IoFileInputs == {[i \in 1..n |-> i % 251] : n \in IoFileSizes}

\* what the peer has sent: nothing, a header with the type tag 9 and two more
\* bytes, a whole String message, a String message cut after its header
IoStreamInputs ==
    {<<>>,
     <<9>> \o ToBeBytes(U64(1)) \o <<104, 105>>,
     MessageToBytes(MessageString(<<104>>)),
     HeaderToBytes(MessageHeaderNew("String", U64(1)))}

\* one operation of a call on the file or on the socket: `len` bytes asked
\* for or returned at offset `at`; a header written announces `announces`
Step(op, what, at, len, announces, ok) ==
    [op |-> op, what |-> what, at |-> at, len |-> len, announces |-> announces, ok |-> ok]

\* TcpClient::send_raw(data): write_all and flush, once each, `?` on both
SendRawRetried(what, at, len, announces, ok) ==
    IF ok
    THEN <<Step("send_raw", what, at, len, announces, TRUE)>>
    ELSE <<Step("send_raw", what, at, len, announces, FALSE),
           Step("send_raw", what, at, len, announces, FALSE)>>
SendRaw(what, at, len, announces, ok) ==
    <<Step("send_raw", what, at, len, announces, ok)>>

\* the message a send_* method builds from its argument
IoMessage(m, content) ==
    CASE m = "send_string" -> MessageString(content)
      [] m = "send_bytes" -> MessageBytes(content)
      [] m = "send_file" -> MessageFile(file_name, content)
      [] m = "send_image" -> MessageImage(file_name, content)
      [] m = "send_video_frame" -> MessageVideoFrame(content)

\* the call has returned
IoReturns(result) ==
    /\ io_result' = result
    /\ send_pc' = "done"

InitIo ==
    /\ ConnIdle
    /\ HeaderIdle
    /\ MessageIdle
    /\ side = "client"
    /\ stream \in IoStreamInputs
    /\ stream_end \in {"open", "closed"}
    /\ rpos = 0
    /\ received = NoReceive
    /\ MetaIdle
    /\ ParseIdle
    /\ file \in IoFileInputs
    /\ file_name = <<97>>
    /\ method \in IoMethods
    /\ send_pc = "start"
    /\ file_pos = 0
    /\ short_reads = 0
    /\ OrderIdle
    /\ ShareIdle
    /\ ServerIdle
    /\ LayoutIdle
    /\ IoIdle
    /\ BindIdle
    /\ SpawnIdle

\* send_string, send_bytes, send_video_frame: Message::*, one send_raw of
\* msg.to_bytes(); send_file, send_image: fs::read(path)? before that
IoSendWhole ==
    /\ method \in IoMethods \ {"send_file_chunked"}
    /\ send_pc = "start"
    /\ \E read_ok \in BOOLEAN, write_ok \in BOOLEAN :
        LET reads == method \in {"send_file", "send_image"}
            msg == IoMessage(method, file)
            read == IF reads
                    THEN <<Step("fs_read", "file", 0, Len(file), None, read_ok)>>
                    ELSE <<>>
        IN  /\ ~reads => read_ok
            /\ ~read_ok => write_ok
            /\ io_steps' = IF read_ok
                           THEN read \o SendRaw("frame", 0, HEADER_SIZE + Len(msg.data),
                                                Some(SmallValue(msg.header.data_len)), write_ok)
                           ELSE read
            /\ IoReturns(IF read_ok /\ write_ok THEN "Ok" ELSE "Err")
    /\ UNCHANGED <<file, file_name, method, file_pos, short_reads>>
    /\ UNCHANGED <<queried_size, file_changes, restIo>>

\* send_file_chunked: File::open(path)?, file.metadata()?.len()
ChunkedOpen ==
    /\ method = "send_file_chunked"
    /\ send_pc = "start"
    /\ \E ok \in BOOLEAN :
        /\ io_steps' = Append(io_steps, Step("open", "file", 0, 0, None, ok))
        /\ IF ok
           THEN /\ queried_size' = Len(file)
                /\ send_pc' = "header"
                /\ UNCHANGED io_result
           ELSE /\ IoReturns("Err")
                /\ UNCHANGED queried_size
    /\ UNCHANGED <<file, file_name, method, file_pos, short_reads>>
    /\ UNCHANGED <<file_changes, restIo>>

\* self.send_raw(&header.to_bytes())?
ChunkedWriteHeader ==
    /\ method = "send_file_chunked"
    /\ send_pc = "header"
    /\ \E ok \in BOOLEAN :
        LET hdr == ChunkedHeader(FileMetaToBytes(FileMetaNew(file_name)), queried_size)
        IN  /\ io_steps' = io_steps \o
                    SendRaw("header", 0, HEADER_SIZE, Some(SmallValue(hdr.data_len)), ok)
            /\ IF ok
               THEN send_pc' = "meta" /\ UNCHANGED io_result
               ELSE IoReturns("Err")
    /\ UNCHANGED <<file, file_name, method, file_pos, short_reads>>
    /\ UNCHANGED <<queried_size, file_changes, restIo>>

\* self.send_raw(&meta_bytes)?
ChunkedWriteMeta ==
    /\ method = "send_file_chunked"
    /\ send_pc = "meta"
    /\ \E ok \in BOOLEAN :
        /\ io_steps' = io_steps \o
                SendRaw("meta", 0, Len(FileMetaToBytes(FileMetaNew(file_name))), None, ok)
        /\ IF ok
           THEN send_pc' = "chunks" /\ UNCHANGED io_result
           ELSE IoReturns("Err")
    /\ UNCHANGED <<file, file_name, method, file_pos, short_reads>>
    /\ UNCHANGED <<queried_size, file_changes, restIo>>

\* the buffer of the loop: vec![0u8; CHUNK_SIZE]
ChunkBufferDoubled == 2 * CHUNK_SIZE
ChunkBuffer == CHUNK_SIZE

\* file.read(&mut buffer): as many bytes as the buffer holds or as are left
\* in the file, or fewer
TurnReads(remaining) ==
    {Min(ChunkBuffer, remaining)} \cup
    {n \in ReadSizes(remaining) : n < Min(ChunkBuffer, remaining)}

\* one turn of the loop: file.read(&mut buffer)?, break at 0,
\* self.send_raw(&buffer[..bytes_read])?
ChunkedTurn ==
    /\ method = "send_file_chunked"
    /\ send_pc = "chunks"
    /\ \E read_ok \in BOOLEAN, write_ok \in BOOLEAN :
       \E bytes_read \in TurnReads(IF file_pos < Len(file) THEN Len(file) - file_pos ELSE 0) :
        LET read == Step("file_read", "chunk", file_pos, bytes_read, None, read_ok)
        IN  /\ ~read_ok => write_ok /\ bytes_read = 0
            /\ bytes_read = 0 => write_ok
            /\ IF ~read_ok
               THEN /\ io_steps' = Append(io_steps, read)
                    /\ IoReturns("Err")
                    /\ UNCHANGED <<file_pos, short_reads>>
               ELSE IF bytes_read = 0
               THEN /\ io_steps' = Append(io_steps, read)
                    /\ IoReturns("Ok")
                    /\ UNCHANGED <<file_pos, short_reads>>
               ELSE /\ io_steps' = Append(io_steps, read) \o
                            SendRaw("chunk", file_pos, bytes_read, None, write_ok)
                    /\ file_pos' = file_pos + bytes_read
                    /\ short_reads' = IF bytes_read < Min(ChunkBuffer, Len(file) - file_pos)
                                      THEN short_reads + 1
                                      ELSE short_reads
                    /\ IF write_ok
                       THEN UNCHANGED <<send_pc, io_result>>
                       ELSE IoReturns("Err")
    /\ UNCHANGED <<file, file_name, method>>
    /\ UNCHANGED <<queried_size, file_changes, restIo>>

\* another process changes the file between the size query and the end of
\* the call: it appends a byte, or it cuts the file
FileChanging ==
    /\ method = "send_file_chunked"
    /\ send_pc \in {"header", "meta", "chunks"}
    /\ file_changes < MaxFileChanges
    /\ file_changes' = file_changes + 1
FileAppended ==
    /\ FileChanging
    /\ file' = Append(file, 7)
    /\ UNCHANGED <<file_name, method, send_pc, file_pos, short_reads>>
    /\ UNCHANGED <<io_result, io_steps, queried_size, restIo>>
FileTruncated ==
    /\ FileChanging
    /\ \E n \in {0, Len(file) - 1} :
        /\ n >= 0
        /\ n < Len(file)
        /\ file' = SubSeq(file, 1, n)
    /\ UNCHANGED <<file_name, method, send_pc, file_pos, short_reads>>
    /\ UNCHANGED <<io_result, io_steps, queried_size, restIo>>

NextIo ==
    \/ IoSendWhole
    \/ ChunkedOpen
    \/ ChunkedWriteHeader
    \/ ChunkedWriteMeta
    \/ ChunkedTurn
    \/ FileAppended
    \/ FileTruncated
    \/ send_pc \in {"start", "done"} /\ ClientRecv

SpecIo == InitIo /\ [][NextIo]_vars

----------------------------------------------------------------------------
(* one thread sending messages on a connection, one thread of the peer reading *)

MaxSends == 3

\* arguments of the send_* functions: empty and non-empty payloads
SendTextInputs == {<<>>, <<104, 105>>}
SendDataInputs == {<<>>, <<0>>, <<255, 0>>}
SendFrameInputs == {<<>>, <<1>>}
SendFileInputs == {<<>>, <<7>>}

\* send_raw: write_all puts the bytes behind everything written before
WirePrepended(data) == data \o stream
WireAfter(data) == stream \o data

InitOrder ==
    /\ ConnIdle
    /\ HeaderIdle
    /\ MessageIdle
    /\ MetaIdle
    /\ ParseIdle
    /\ SendIdle
    /\ side \in {"client", "server"}
    /\ stream = <<>>
    /\ stream_end = "open"
    /\ rpos = 0
    /\ received = NoReceive
    /\ sent = <<>>
    /\ delivered = <<>>
    /\ ShareIdle
    /\ ServerIdle
    /\ LayoutIdle
    /\ IoIdle
    /\ BindIdle
    /\ SpawnIdle

\* what every send_* does with the message it has built: send_raw(&msg.to_bytes())
Sends(msg) ==
    /\ Len(sent) < MaxSends
    /\ stream' = WireAfter(MessageToBytes(msg))
    /\ sent' = Append(sent, msg)
    /\ UNCHANGED <<side, stream_end, rpos, received, delivered, restOrder>>

SendString == \E content \in SendTextInputs : Sends(MessageString(content))
SendBytes == \E data \in SendDataInputs : Sends(MessageBytes(data))
SendFileMessage == \E content \in SendFileInputs : Sends(MessageFile(<<97>>, content))
SendImage == \E content \in SendFileInputs : Sends(MessageImage(<<97>>, content))
SendVideoFrame == \E frame_data \in SendFrameInputs : Sends(MessageVideoFrame(frame_data))

\* the next recv_message of the reading thread
PeerRecv ==
    /\ received.result # "panic"
    /\ RecvReturns(rpos)
    /\ received' = IF side = "client" THEN RecvMessage(rpos) ELSE ConnRecvMessage(rpos)
    /\ rpos' = received'.pos
    /\ delivered' = Append(delivered, received')
    /\ UNCHANGED <<side, stream, stream_end, sent, restOrder>>

NextOrder ==
    \/ SendString
    \/ SendBytes
    \/ SendFileMessage
    \/ SendImage
    \/ SendVideoFrame
    \/ PeerRecv

SpecOrder == InitOrder /\ [][NextOrder]_vars

----------------------------------------------------------------------------
(* two threads sending on the same connection *)

MaxPartialWrites == 1

\* "a" calls the send functions of the TcpClient, "b" sends on the same
\* socket (a clone of client.stream(), or the client shared between threads)
Senders == {"a", "b"}
Other(t) == IF t = "a" THEN "b" ELSE "a"

\* the buffers a send function hands to send_raw, one after the other:
\* send_string .. send_video_frame hand over msg.to_bytes(), the whole frame;
\* send_file_chunked hands over the header, the metadata, then every chunk
SendStringCalls(content) == <<MessageToBytes(MessageString(content))>>
SendBytesCalls(data) == <<MessageToBytes(MessageBytes(data))>>
SendFileChunkedCalls(name, content) ==
    LET meta_bytes == FileMetaToBytes(FileMetaNew(name))
    IN  <<HeaderToBytes(ChunkedHeader(meta_bytes, Len(content))), meta_bytes>>
        \o (IF content = <<>> THEN <<>> ELSE <<content>>)

SendChoices ==
    { [op |-> "send_string", calls |-> SendStringCalls(<<104, 105>>)],
      [op |-> "send_bytes", calls |-> SendBytesCalls(<<>>)],
      [op |-> "send_file_chunked", calls |-> SendFileChunkedCalls(<<97>>, <<7>>)] }

NotSending == [pc |-> "idle", op |-> "", calls |-> <<>>, call_no |-> 0, out |-> <<>>, partial |-> 0]

\* a thread may enter a send function: always, unless the callers serialize
\* their sends and the other thread is inside one
MayStartUnlocked(t) == TRUE
MayStart(t) == ~serialized \/ senders[Other(t)].pc # "writing"

\* how many bytes one write of the socket may take of a buffer of n bytes:
\* all of them, or (a partial write) only the first byte or the first nine
WriteSizes(n, partial) ==
    {n} \cup IF partial < MaxPartialWrites THEN {k \in {1, HEADER_SIZE} : k < n} ELSE {}

InitShare ==
    /\ ConnIdle
    /\ HeaderIdle
    /\ MessageIdle
    /\ MetaIdle
    /\ ParseIdle
    /\ SendIdle
    /\ OrderIdle
    /\ side = "server"
    /\ stream = <<>>
    /\ stream_end = "open"
    /\ rpos = 0
    /\ received = NoReceive
    /\ serialized \in BOOLEAN
    /\ senders = [t \in Senders |-> NotSending]
    /\ owner = <<>>
    /\ ServerIdle
    /\ LayoutIdle
    /\ IoIdle
    /\ BindIdle
    /\ SpawnIdle

\* a thread calls a send function: the message is built, send_raw begins
BeginSend(t) ==
    /\ senders[t].pc = "idle"
    /\ MayStart(t)
    /\ \E c \in SendChoices :
        senders' = [senders EXCEPT ![t] =
            [pc |-> "writing", op |-> c.op, calls |-> c.calls,
             call_no |-> 1, out |-> c.calls[1], partial |-> 0]]
    /\ UNCHANGED <<serialized, owner, recvVars, restShare>>

\* one write of the socket inside write_all; when the buffer is through,
\* write_all and flush return and the next send_raw, if any, begins
WriteSome(t) ==
    /\ senders[t].pc = "writing"
    /\ \E n \in WriteSizes(Len(senders[t].out), senders[t].partial) :
        LET me == senders[t]
            rest == SubSeq(me.out, n + 1, Len(me.out))
            part == IF rest = <<>> THEN me.partial ELSE me.partial + 1
        IN  /\ stream' = WireAfter(SubSeq(me.out, 1, n))
            /\ owner' = owner \o [i \in 1..n |-> t]
            /\ senders' = [senders EXCEPT ![t] =
                    IF rest # <<>> THEN [me EXCEPT !.out = rest, !.partial = part]
                    ELSE IF me.call_no < Len(me.calls)
                    THEN [me EXCEPT !.call_no = me.call_no + 1, !.out = me.calls[me.call_no + 1]]
                    ELSE [me EXCEPT !.pc = "done", !.out = <<>>]]
    /\ UNCHANGED <<serialized, side, stream_end, rpos, received, restShare>>

NextShare ==
    \/ \E t \in Senders : BeginSend(t)
    \/ \E t \in Senders : WriteSome(t)

SpecShare == InitShare /\ [][NextShare]_vars

----------------------------------------------------------------------------
(* TcpServer::run and TcpServer::run_threaded *)

MaxClients == 4
MaxAcceptErrors == 2

\* the clients, numbered in the order in which they connect
Clients == 1..MaxClients

IdleRecv ==
    /\ side = "none"
    /\ stream = <<>>
    /\ stream_end = "open"
    /\ rpos = 0
    /\ received = NoReceive

InitServer(m) ==
    /\ ConnIdle
    /\ HeaderIdle
    /\ MessageIdle
    /\ IdleRecv
    /\ MetaIdle
    /\ ParseIdle
    /\ SendIdle
    /\ OrderIdle
    /\ ShareIdle
    /\ LayoutIdle
    /\ mode = m
    /\ listener_pc = "accept"
    /\ backlog = <<>>
    /\ conns = [c \in Clients |-> "absent"]
    /\ accept_log = <<>>
    /\ handler_log = <<>>
    /\ results = <<>>
    /\ accept_errors = 0
    /\ IoIdle
    /\ BindIdle
    /\ SpawnIdle

\* a client connects: its connection waits in the listener's queue
ClientConnects(c) ==
    /\ conns[c] = "absent"
    /\ IF c = 1 THEN TRUE ELSE conns[c - 1] # "absent"
    /\ conns' = [conns EXCEPT ![c] = "pending"]
    /\ backlog' = Append(backlog, c)
    /\ UNCHANGED <<mode, listener_pc, accept_log, handler_log, results, accept_errors, restServer>>

\* run: where the loop is after `Ok(stream)` (inside on_client(conn)) and
\* after on_client returned
RunAfterAcceptSpawned == "accept"
RunAfterAccept == "handler"
RunIgnoreFalse(result) == "accept"
RunAfterHandler(result) == IF result THEN "accept" ELSE "returned"

\* run: incoming() yields Ok(stream); on_client(conn) is called
RunAccept ==
    /\ mode = "run"
    /\ listener_pc = "accept"
    /\ backlog # <<>>
    /\ conns' = [conns EXCEPT ![Head(backlog)] = "handling"]
    /\ backlog' = Tail(backlog)
    /\ accept_log' = Append(accept_log, Head(backlog))
    /\ handler_log' = Append(handler_log, Head(backlog))
    /\ listener_pc' = RunAfterAccept
    /\ UNCHANGED <<mode, results, accept_errors, restServer>>

\* run: incoming() yields Err(e); the error is printed, the loop goes on
RunAcceptError ==
    /\ mode = "run"
    /\ listener_pc = "accept"
    /\ accept_errors < MaxAcceptErrors
    /\ accept_errors' = accept_errors + 1
    /\ UNCHANGED <<mode, listener_pc, backlog, conns, accept_log, handler_log, results, restServer>>

\* run: on_client(conn) returns true or false
RunHandlerReturns ==
    /\ mode = "run"
    /\ listener_pc = "handler"
    /\ \E result \in BOOLEAN :
        /\ results' = Append(results, result)
        /\ listener_pc' = RunAfterHandler(result)
    /\ conns' = [conns EXCEPT ![Last(handler_log)] = "finished"]
    /\ UNCHANGED <<mode, backlog, accept_log, handler_log, accept_errors, restServer>>

\* run: on_client(conn) panics; the panic unwinds through run
RunHandlerPanics ==
    /\ mode = "run"
    /\ listener_pc = "handler"
    /\ listener_pc' = "panicked"
    /\ conns' = [conns EXCEPT ![Last(handler_log)] = "panicked"]
    /\ UNCHANGED <<mode, backlog, accept_log, handler_log, results, accept_errors, restServer>>

InitRun == InitServer("run")

NextRun ==
    \/ \E c \in Clients : ClientConnects(c)
    \/ RunAccept
    \/ RunAcceptError
    \/ RunHandlerReturns
    \/ RunHandlerPanics

SpecRun == InitRun /\ [][NextRun]_vars

\* run_threaded: the loop takes the next connection whenever it is at accept;
\* it never waits for a handler
Running(c) == conns[c] \in {"spawned", "handling", "blocked"}
ThreadedMayAcceptWhenIdle == listener_pc = "accept" /\ \A c \in Clients : ~Running(c)
ThreadedMayAccept == listener_pc = "accept"

\* run_threaded: where the loop is after a handler thread panicked
ThreadedPanicPropagates == "panicked"
ThreadedAfterHandlerPanic == listener_pc

\* std::thread::spawn(move || { handler(conn); }): a new thread, conn moved
\* into its closure
SpawnNone(c) == threads
Spawn(c) == Append(threads, [conn |-> c, calls |-> 0])

\* the thread into which connection c was moved
ThreadOf(c) == CHOOSE t \in 1..Len(threads) : threads[t].conn = c

\* run_threaded: incoming() yields Ok(stream); a thread is spawned for it
ThreadedAccept ==
    /\ mode = "run_threaded"
    /\ ThreadedMayAccept
    /\ backlog # <<>>
    /\ conns' = [conns EXCEPT ![Head(backlog)] = "spawned"]
    /\ backlog' = Tail(backlog)
    /\ accept_log' = Append(accept_log, Head(backlog))
    /\ threads' = Spawn(Head(backlog))
    /\ UNCHANGED <<mode, listener_pc, handler_log, results, accept_errors, restSpawn>>

\* run_threaded: where the loop is after `Err(e) => eprintln!(..)`
ThreadedAcceptErrorReturns == "returned"
ThreadedAfterAcceptError == listener_pc

\* run_threaded: incoming() yields Err(e); the error is printed, the loop goes on
ThreadedAcceptError ==
    /\ mode = "run_threaded"
    /\ listener_pc = "accept"
    /\ accept_errors < MaxAcceptErrors
    /\ accept_errors' = accept_errors + 1
    /\ listener_pc' = ThreadedAfterAcceptError
    /\ UNCHANGED <<mode, backlog, conns, accept_log, handler_log, results, restServer>>

\* a step of the thread spawned for client c that leaves the loop alone
HandlerStep(c, from, to) ==
    /\ mode = "run_threaded"
    /\ conns[c] = from
    /\ conns' = [conns EXCEPT ![c] = to]
    /\ UNCHANGED <<mode, listener_pc, backlog, accept_log, handler_log, results, accept_errors, restServer>>

\* the spawned thread is scheduled and calls handler(conn)
HandlerStart(c) ==
    /\ mode = "run_threaded"
    /\ conns[c] = "spawned"
    /\ \E t \in 1..Len(threads) : threads[t].conn = c
    /\ conns' = [conns EXCEPT ![c] = "handling"]
    /\ threads' = [threads EXCEPT ![ThreadOf(c)].calls = @ + 1]
    /\ UNCHANGED <<mode, listener_pc, backlog, accept_log, handler_log, results, accept_errors, restSpawn>>
\* handler(conn) waits for ever (a recv_message on a silent connection)
HandlerBlocks(c) == HandlerStep(c, "handling", "blocked")
\* handler(conn) returns
HandlerFinish(c) == HandlerStep(c, "handling", "finished")
\* handler(conn) meets a read or write error or a malformed header and returns
HandlerFails(c) == HandlerStep(c, "handling", "failed")

\* handler(conn) panics: the spawned thread ends, its JoinHandle was dropped
HandlerPanics(c) ==
    /\ mode = "run_threaded"
    /\ conns[c] = "handling"
    /\ conns' = [conns EXCEPT ![c] = "panicked"]
    /\ listener_pc' = ThreadedAfterHandlerPanic
    /\ UNCHANGED <<mode, backlog, accept_log, handler_log, results, accept_errors, restServer>>

InitThreaded == InitServer("run_threaded")

NextThreaded ==
    \/ \E c \in Clients : ClientConnects(c)
    \/ ThreadedAccept
    \/ ThreadedAcceptError
    \/ \E c \in Clients : HandlerStart(c)
    \/ \E c \in Clients : HandlerBlocks(c)
    \/ \E c \in Clients : HandlerFinish(c)
    \/ \E c \in Clients : HandlerFails(c)
    \/ \E c \in Clients : HandlerPanics(c)

SpecThreaded == InitThreaded /\ [][NextThreaded]_vars

\* fair scheduling: the thread in the accept loop and every spawned thread
\* get to run
SpecThreadedFair ==
    /\ InitThreaded
    /\ [][NextThreaded]_vars
    /\ WF_vars(ThreadedAccept)
    /\ \A c \in Clients : WF_vars(HandlerStart(c))

----------------------------------------------------------------------------
(* TcpServer::bind, bind_default, bind_addr *)

MaxBinds == 3

BindPorts == {0, 8080, 9000}
BindHosts == {"127.0.0.1", "localhost"}

\* format!("{}:{}", addr, port)
Address(host, port) == [host |-> host, port |-> port]

\* `TcpListener::bind(&addr)?` then `Ok(Self { listener })`: the TcpServer
\* values after the call
ServersAfterBindAlways(address, ok) == tcp_servers \cup {address}
ServersAfterBind(address, ok) ==
    IF ok THEN tcp_servers \cup {address} ELSE tcp_servers

\* one call of TcpListener::bind; it fails when the address is taken, here
\* by a TcpServer of this process or (ok = FALSE) by anything else
BindListener(fn, address) ==
    /\ Len(bind_calls) < MaxBinds
    /\ \E ok \in BOOLEAN :
        /\ (address \in tcp_servers /\ address.port # 0) => ~ok
        /\ listener_binds' = Append(listener_binds, [address |-> address, ok |-> ok])
        /\ tcp_servers' = ServersAfterBind(address, ok)
        /\ bind_calls' = Append(bind_calls,
                [fn |-> fn, address |-> address, result |-> IF ok THEN "Ok" ELSE "Err"])
    /\ UNCHANGED restBind

Bind(port) == BindListener("bind", Address(SERVER_DEFAULT_ADDR, port))
BindDefault == BindListener("bind_default", Address(SERVER_DEFAULT_ADDR, SERVER_DEFAULT_PORT))
BindAddr(addr, port) == BindListener("bind_addr", Address(addr, port))

InitBind ==
    /\ ConnIdle
    /\ HeaderIdle
    /\ MessageIdle
    /\ RecvIdle
    /\ MetaIdle
    /\ ParseIdle
    /\ SendIdle
    /\ OrderIdle
    /\ ShareIdle
    /\ ServerIdle
    /\ LayoutIdle
    /\ IoIdle
    /\ BindIdle
    /\ SpawnIdle

NextBind ==
    \/ \E port \in BindPorts : Bind(port)
    \/ BindDefault
    \/ \E addr \in BindHosts, port \in BindPorts : BindAddr(addr, port)

SpecBind == InitBind /\ [][NextBind]_vars

----------------------------------------------------------------------------
(* headers and the messages without metadata, serialized side by side *)

InitCodec == InitHeader

NextCodec ==
    \/ HeaderNew
    \/ HeaderSerialize
    \/ BuildString
    \/ BuildBytes
    \/ BuildVideoFrame
    \/ Serialize

SpecCodec == InitCodec /\ [][NextCodec]_vars

----------------------------------------------------------------------------
(* Properties of the connection policies *)

IsAttempt(e) == e.ev \in {"connect_ok", "connect_err"}

\* index of the last successful connection before position i (0: none)
LastOkBefore(i) ==
    LET oks == {j \in 1..(i - 1) : events[j].ev = "connect_ok"}
    IN  IF oks = {} THEN 0 ELSE CHOOSE j \in oks : \A k \in oks : k <= j

\* number of failed attempts before position i since the last success (or the start)
FailuresSince(i) ==
    Cardinality({j \in (LastOkBefore(i) + 1)..(i - 1) : events[j].ev = "connect_err"})

\* the documented schedule: 1000, 1500, 2250, 3375, ... capped at 30000
BackoffTable == <<1000, 1500, 2250, 3375, 5062, 7593, 11389, 17083, 25624, 30000>>
ExpectedBackoff(k) == IF k <= Len(BackoffTable) THEN BackoffTable[k] ELSE 30000

SleepAfterFailure(i) ==
    /\ i > 1
    /\ events[i].ev = "sleep"
    /\ events[i - 1].ev = "connect_err"

\* C1: in connect_forever the k-th consecutive failed attempt after a
\* successful connection is followed by the same sleep as the k-th failed
\* attempt at the start of the call (1000, 1500, ...).
C1_BackoffRestartsAfterSuccess ==
    call = "connect_forever" =>
        \A i \in 1..Len(events) :
            SleepAfterFailure(i) => events[i].ms = ExpectedBackoff(FailuresSince(i))

\* C2: from the start of connect_until_success and connect_forever the sleeps
\* after consecutive failed attempts are 1000, 1500, 2250, 3375, ...: each is
\* min(floor(previous * 1.5), 30000), and after reaching 30000 it stays 30000.
C2_BackoffSchedule ==
    call \in {"connect_until_success", "connect_forever"} =>
        \A i \in 1..Len(events) :
            (SleepAfterFailure(i) /\ LastOkBefore(i) = 0) =>
                /\ events[i].ms = ExpectedBackoff(FailuresSince(i))
                /\ i = 2 => events[i].ms = 1000
                /\ i > 2 =>
                    /\ events[i].ms = Min((events[i - 2].ms * 3) \div 2, 30000)
                    /\ events[i - 2].ms = 30000 => events[i].ms = 30000

C2_CapReached ==
    /\ call = "connect_until_success"
    /\ Len(events) >= 22
    /\ \A j \in 1..22 : events[j].ev # "connect_ok"
    /\ events[18].ms = 25624
    /\ events[20].ms = 30000
    /\ events[22].ms = 30000

\* C3: in connect_forever a callback returning false stops the client for
\* good (nothing more is attempted, called or slept and the call returns),
\* and the stopped state is entered in no other way.
C3_StoppedIffCallbackFalse ==
    /\ [](call = "connect_forever" =>
            /\ pc = "stopped" =>
                (events # <<>> /\ Last(events).ev = "callback_false")
            /\ (events # <<>> /\ Last(events).ev = "callback_false") =>
                pc = "stopped"
            /\ \A i \in 1..Len(events) :
                events[i].ev = "callback_false" => i = Len(events))
    /\ [][(call = "connect_forever" /\ pc = "stopped") =>
            (pc' = "stopped" /\ events' = events /\ delay_ms' = delay_ms)]_vars

C3_StoppedAfterReconnects ==
    /\ call = "connect_forever"
    /\ pc = "stopped"
    /\ \E i \in 1..Len(events) : events[i].ev = "callback_true"
    /\ \E i \in 1..Len(events) : events[i].ev = "connect_err"

\* C4: in connect_forever a connection that ends without the callback
\* returning false (the callback returned true, or the connection was lost
\* under it) puts the client back into the reconnect loop, and the loop is
\* left only by the callback returning false.
C4_LoopLeftOnlyByCallbackFalse ==
    call = "connect_forever" =>
        /\ pc \notin {"connect", "callback", "sleep"} =>
            (events # <<>> /\ Last(events).ev = "callback_false")
        /\ \A i \in 1..Len(events) :
            (events[i].ev \in {"callback_true", "callback_panic"}) =>
                IF i = Len(events) THEN pc = "sleep"
                ELSE events[i + 1].ev = "sleep"

\* C5: connect_until_success never fails: every failed attempt is followed
\* by a backoff sleep and another attempt, the call ends only connected, and
\* the first successful attempt is its last step.
C5_UntilSuccessNeverFails ==
    call = "connect_until_success" =>
        /\ pc \in {"connect", "sleep", "connected"}
        /\ pc = "connected" <=> (events # <<>> /\ Last(events).ev = "connect_ok")
        /\ pc = "sleep" <=> (events # <<>> /\ Last(events).ev = "connect_err")
        /\ \A i \in 1..Len(events) :
            /\ events[i].ev = "connect_ok" => i = Len(events)
            /\ (events[i].ev = "connect_err" /\ i < Len(events)) =>
                (events[i + 1].ev = "sleep" /\ events[i + 1].ms >= RECONNECT_INITIAL_MS)
            /\ (events[i].ev = "sleep" /\ i < Len(events)) => IsAttempt(events[i + 1])

C5_ConnectedAfterFailures ==
    /\ call = "connect_until_success"
    /\ pc = "connected"
    /\ Len(events) >= 5
    /\ events[1].ev = "connect_err"
    /\ events[3].ev = "connect_err"

\* C6: connect_once makes exactly one attempt: success leaves the client
\* connected, a connect failure is the caller's error, with no retry and no
\* sleep.
C6_OnceSingleAttempt ==
    call = "connect_once" =>
        /\ Len(events) <= 1
        /\ \A i \in 1..Len(events) : IsAttempt(events[i])
        /\ pc = "connect" <=> events = <<>>
        /\ pc = "connected" <=> (events # <<>> /\ events[1].ev = "connect_ok")
        /\ pc = "failed" <=> (events # <<>> /\ events[1].ev = "connect_err")

C6_OnceFailed ==
    /\ call = "connect_once"
    /\ pc = "failed"
    /\ events = <<Event("connect_err", 0, FALSE)>>

----------------------------------------------------------------------------
(* Properties of the codec and of recv_message *)

\* C7: for each of the five message types and every length, parsing the
\* bytes of a header gives back a header of the same type and length.
C7_HeaderRoundTrip ==
    (header # None /\ header_buf # None /\ decoded # None) =>
        /\ decoded[1] # None
        /\ decoded[1][1].msg_type = header[1].msg_type
        /\ decoded[1][1].data_len = header[1].data_len

C7_RoundTripAllLengthBytes ==
    /\ header # None
    /\ header[1].msg_type = "VideoStream"
    /\ header[1].data_len = <<258, 772, 1286, 1800>>
    /\ header_buf = Some(<<5, 1, 2, 3, 4, 5, 6, 7, 8>>)
    /\ decoded # None

\* C8: from_bytes returns None exactly when the first of the nine bytes is
\* not 1, 2, 3, 4 or 5, whatever the eight length bytes are.
C8_TagValidity ==
    (header_buf # None /\ decoded # None) =>
        (decoded[1] = None <=> header_buf[1][1] \notin {1, 2, 3, 4, 5})

C8_BadTagRejected ==
    /\ header = None
    /\ header_buf = Some(<<6, 255, 255, 255, 255, 255, 255, 255, 255>>)
    /\ decoded = Some(None)

\* C9: a message built by any of the five constructors has a header length
\* equal to the number of bytes of its data, and to_bytes gives the nine
\* header bytes followed by exactly those data bytes and nothing else.
C9_LengthFidelity ==
    message # None =>
        LET m == message[1]
            n == Len(m.data)
        IN  /\ m.header.data_len = <<0, 0, 0, n>>
            /\ encoded # None =>
                LET b == encoded[1]
                IN  /\ Len(b) = 9 + n
                    /\ b[1] \in 1..5
                    /\ \A i \in 2..8 : b[i] = 0
                    /\ b[9] = n
                    /\ SubSeq(b, 10, Len(b)) = m.data

C9_FileEncoded ==
    /\ message # None
    /\ message[1].header.msg_type = "File"
    /\ Len(message[1].data) >= 5
    /\ encoded # None
    /\ Len(encoded[1]) = 9 + Len(message[1].data)

\* number of payload bytes a header at stream position s0 announces, when
\* the seven high length bytes are zero
AnnouncesSmall(s0) == \A i \in 2..8 : stream[s0 + i] = 0
Announced(s0) == stream[s0 + 9]

----------------------------------------------------------------------------
(* Properties of FileMeta and parse_message_content *)

\* C11: for every file name, parsing the bytes of FileMeta::new(name) gives
\* back the name, with bytes_consumed = 2 + the name's byte length, the two
\* length bytes being that length as a 16-bit big-endian integer.
C11_MetaRoundTrip ==
    meta_trip # None =>
        /\ meta_trip[1].returned = "Some"
        /\ meta_trip[1].same_name
        /\ meta_trip[1].bytes_consumed = 2 + meta_trip[1].name_len
        /\ meta_trip[1].length_field = meta_trip[1].name_len

\* the number of name bytes a metadata buffer announces
DeclaredNameLen(b) == b[1] * 256 + b[2]

\* C20: FileMeta::from_bytes returns None when the buffer has fewer than 2
\* bytes or announces more name bytes than follow the length field; when it
\* returns Some((meta, n)), n = 2 + the announced length and n <= buffer length.
C20_MetaBounds ==
    (meta_buf # None /\ meta_out # None) =>
        LET b == meta_buf[1]
            r == meta_out[1]
        IN  /\ Len(b) < 2 => r = None
            /\ (Len(b) >= 2 /\ DeclaredNameLen(b) > Len(b) - 2) => r = None
            /\ r # None =>
                /\ r[1][2] = 2 + DeclaredNameLen(b)
                /\ r[1][2] <= Len(b)
                /\ Len(r[1][1].filename) = DeclaredNameLen(b)

C20_NameLongerThanBuffer ==
    /\ file_meta = None
    /\ meta_buf = Some(<<0, 2, 97>>)
    /\ meta_out = Some(None)

\* metadata at the start of a payload is valid when the two length bytes are
\* there, the announced name fits and the name decodes (here: is ASCII)
ValidMetaAt(data) ==
    /\ Len(data) >= 2
    /\ 2 + DeclaredNameLen(data) <= Len(data)
    /\ \A i \in 3..(2 + DeclaredNameLen(data)) : data[i] < 128

\* C19: parse_message_content never fails; a File or Image message without
\* valid metadata is returned as Bytes holding the whole payload, one with
\* valid metadata as File/Image with the name and the bytes after the metadata.
C19_ParseLenient ==
    parsed # None =>
        LET m == message[1]
            t == m.header.msg_type
            c == parsed[1]
            n == DeclaredNameLen(m.data)
        IN  /\ c.kind \in {"String", "Bytes", "File", "Image", "VideoFrame"}
            /\ t \in {"File", "Image"} =>
                IF ValidMetaAt(m.data)
                THEN /\ c.kind = t
                     /\ c.filename = SubSeq(m.data, 3, 2 + n)
                     /\ c.data = SubSeq(m.data, 3 + n, Len(m.data))
                ELSE /\ c.kind = "Bytes"
                     /\ c.data = m.data
            /\ t = "Bytes" => (c.kind = "Bytes" /\ c.data = m.data)
            /\ t = "VideoStream" => (c.kind = "VideoFrame" /\ c.data = m.data)
            /\ t = "String" => c.kind = "String"

C19_UndecodableNameFallsBack ==
    /\ message # None
    /\ message[1].header.msg_type = "Image"
    /\ message[1].data = <<0, 1, 255, 97>>
    /\ parsed = Some(Parsed("Bytes", <<>>, <<0, 1, 255, 97>>))

----------------------------------------------------------------------------
(* Properties of sending on a connection *)

\* C12: for every file size (0, below the chunk size, a multiple of it, above
\* it) the bytes send_file_chunked puts on the wire are those send_file puts
\* there for the same file, and the peer's recv_message returns a File
\* message whose payload is the metadata followed by the file content.
C12_ChunkedEqualsSendFile ==
    /\ send_pc = "done" => stream = MessageToBytes(MessageFile(file_name, file))
    /\ (method # "none" /\ received.result # "none") =>
        /\ received.result = "Ok"
        /\ received.msg[1].header.msg_type = "File"
        /\ received.msg[1].data = FileMetaToBytes(FileMetaNew(file_name)) \o file
        /\ received.pos = HEADER_SIZE + FILE_META_SIZE + Len(file_name) + Len(file)

C12_LargeFileInThreeReads ==
    /\ method = "send_file_chunked"
    /\ send_pc = "done"
    /\ Len(file) = 2 * CHUNK_SIZE + 1
    /\ short_reads = 1
    /\ received.result = "Ok"

\* C13: when one thread sends m1, ..., mk on a connection and the peer calls
\* recv_message sequentially on one thread, the i-th call returns a message
\* with the type and payload of mi, for any mix of types and payload lengths.
C13_InOrder ==
    /\ Len(delivered) <= Len(sent)
    /\ \A i \in 1..Len(delivered) :
        /\ delivered[i].result = "Ok"
        /\ delivered[i].msg[1].header.msg_type = sent[i].header.msg_type
        /\ delivered[i].msg[1].data = sent[i].data

C13_ThreeMixedDelivered ==
    /\ sent = <<MessageString(<<>>), MessageFile(<<97>>, <<7>>), MessageBytes(<<255, 0>>)>>
    /\ Len(delivered) = 3
    /\ delivered[3].msg[1].data = <<255, 0>>

\* the bytes each thread wrote lie next to each other on the wire
Contiguous ==
    \A i \in 1..Len(owner), j \in 1..Len(owner) :
        (i < j /\ owner[i] = owner[j]) => \A k \in i..j : owner[k] = owner[i]

\* the send functions that build a Message and send it
WholeMessageSends == {"send_string", "send_bytes"}

----------------------------------------------------------------------------
(* Properties of the server's accept loops *)

Handling == {c \in DOMAIN conns : conns[c] = "handling"}

\* C15: in run at most one connection is being serviced at any time; the next
\* connection is not accepted or handed to on_client before the call for the
\* previous one has returned, and connections reach on_client in accept order.
C15_OneAtATime ==
    /\ [](Cardinality(Handling) <= 1 /\ handler_log = accept_log)
    /\ [][(accept_log' # accept_log \/ handler_log' # handler_log) =>
            (Handling = {} /\ Len(results) = Len(handler_log))]_vars

C15_SecondWaitsForFirst ==
    /\ mode = "run"
    /\ listener_pc = "handler"
    /\ handler_log = <<1, 2>>
    /\ conns[1] = "finished"
    /\ conns[2] = "handling"
    /\ backlog = <<3>>

\* C16: in run, once on_client returns false the loop stops, no later
\* connection is accepted or handed over even if clients are pending, and run
\* returns; while on_client returns true the loop goes on to the next accept
\* and run does not return.
C16_StopsOnFalseOnly ==
    /\ [](listener_pc = "returned" <=> (results # <<>> /\ ~Last(results)))
    /\ [][(results' # results /\ Last(results')) => listener_pc' = "accept"]_vars
    /\ [][listener_pc = "returned" =>
            (listener_pc' = "returned" /\ accept_log' = accept_log /\ handler_log' = handler_log)]_vars

C16_ReturnedWithClientsPending ==
    /\ mode = "run"
    /\ listener_pc = "returned"
    /\ results = <<TRUE, FALSE>>
    /\ backlog = <<3>>

Served(c) == conns[c] \in {"handling", "blocked", "finished", "failed", "panicked"}

\* C17: in run_threaded, under fair scheduling, every client that connects is
\* eventually accepted and its handler eventually starts, whatever the other
\* connections' handlers do (run for long, block for ever).
C17_EveryClientServed ==
    \A c \in Clients : (conns[c] = "pending") ~> Served(c)

C17_ServedBesideBlocked ==
    /\ mode = "run_threaded"
    /\ conns[1] = "blocked"
    /\ conns[2] = "blocked"
    /\ conns[3] = "handling"

\* C18: in run_threaded a failure while handling one connection (an I/O error,
\* a malformed header, a panic of the handler) or a failed accept leaves the
\* loop accepting and every other handler able to go on.
C18_FailuresIsolated ==
    /\ listener_pc = "accept"
    /\ backlog # <<>> => ENABLED ThreadedAccept
    /\ \A c \in DOMAIN conns :
        /\ conns[c] = "spawned" => ENABLED HandlerStart(c)
        /\ conns[c] = "handling" => ENABLED HandlerFinish(c)

C18_OthersGoOnAfterFailures ==
    /\ mode = "run_threaded"
    /\ accept_errors = MaxAcceptErrors
    /\ conns[1] = "panicked"
    /\ conns[2] = "failed"
    /\ conns[3] = "finished"

----------------------------------------------------------------------------
(* The wire format *)

\* the tag byte the protocol assigns to each message type
WireTag(t) ==
    CASE t = "String" -> 1
      [] t = "Bytes" -> 2
      [] t = "File" -> 3
      [] t = "Image" -> 4
      [] t = "VideoStream" -> 5

\* nine bytes are the header of type t and length v: the tag, then the
\* length most significant byte first
IsWireHeader(b, t, v) ==
    /\ Len(b) = 9
    /\ b[1] = WireTag(t)
    /\ \A i \in 2..9 : b[i] \in 0..255
    /\ \A k \in 1..4 : b[2 * k] * 256 + b[2 * k + 1] = v[k]

\* C21: Message::string("hi") encodes to [1,0,0,0,0,0,0,0,2,'h','i'] and
\* MessageHeader{Bytes, 10}.to_bytes() is [2,0,0,0,0,0,0,0,10]; in general a
\* header is the tag byte (String=1 .. VideoStream=5) followed by the payload
\* length as an 8-byte big-endian integer.
C21_WireFormat ==
    /\ (header # None /\ header_buf # None) =>
        /\ IsWireHeader(header_buf[1], header[1].msg_type, header[1].data_len)
        /\ header[1] = [msg_type |-> "Bytes", data_len |-> <<0, 0, 0, 10>>] =>
            header_buf[1] = <<2, 0, 0, 0, 0, 0, 0, 0, 10>>
    /\ (message # None /\ encoded # None) =>
        /\ IsWireHeader(SubSeq(encoded[1], 1, 9), message[1].header.msg_type,
                        <<0, 0, 0, Len(message[1].data)>>)
        /\ SubSeq(encoded[1], 10, Len(encoded[1])) = message[1].data
        /\ (message[1].header.msg_type = "String" /\ message[1].data = <<104, 105>>) =>
            encoded[1] = <<1, 0, 0, 0, 0, 0, 0, 0, 2, 104, 105>>

C21_BothScenarios ==
    /\ header = Some([msg_type |-> "Bytes", data_len |-> <<0, 0, 0, 10>>])
    /\ header_buf = Some(<<2, 0, 0, 0, 0, 0, 0, 0, 10>>)
    /\ message # None
    /\ message[1].header.msg_type = "String"
    /\ encoded = Some(<<1, 0, 0, 0, 0, 0, 0, 0, 2, 104, 105>>)

\* C22: Message::file("a.txt", b"hi") has payload [0,5,'a','.','t','x','t',
\* 'h','i'], header length 9 and tag 3; in general the payload of a File or
\* Image message is the 2-byte big-endian filename length, the filename
\* bytes, then the content bytes, and Message::image differs from
\* Message::file only in the tag (4 instead of 3).
C22_FileLayout ==
    /\ (message # None /\ message[1].header.msg_type = "File"
            /\ SubSeq(message[1].data, 3, Len(message[1].data)) = <<97, 46, 116, 120, 116, 104, 105>>) =>
        /\ message[1].data = <<0, 5, 97, 46, 116, 120, 116, 104, 105>>
        /\ message[1].header.data_len = <<0, 0, 0, 9>>
        /\ encoded # None => encoded[1][1] = 3
    /\ layout # None =>
        /\ layout[1].length_field = layout[1].name_len
        /\ layout[1].name_follows
        /\ layout[1].content_follows
        /\ layout[1].payload_len = 2 + layout[1].name_len + layout[1].content_len
        /\ layout[1].tag = (IF layout[1].kind = "File" THEN 3 ELSE 4)
        /\ layout[1].as_file

----------------------------------------------------------------------------
(* Failing calls on an established connection *)

\* C23: retries happen only when establishing a connection: a failing send_*
\* or recv_message returns its error to the caller at once; it makes no
\* connection attempt, sleeps no backoff, and makes no second attempt to
\* send or receive the same message (the operation that failed is the last
\* one the call made, and the call returned Err).
C23_NoRetryOutsideConnect ==
    /\ events = <<>>
    /\ call = "none"
    /\ \A i \in 1..Len(io_steps) :
        ~io_steps[i].ok => i = Len(io_steps) /\ io_result = "Err"
    /\ io_result = "Err" => send_pc = "done" /\ ~Last(io_steps).ok
    /\ received.result = "Err" => rpos = received.pos /\ received.pos >= received.start

C23_SendFailedAndRecvFailed ==
    /\ io_result = "Err"
    /\ Last(io_steps).op = "send_raw"
    /\ Last(io_steps).what = "chunk"
    /\ received.result = "Err"

\* C24: a failure to bind the listening socket in bind, bind_addr or
\* bind_default is returned to the caller as an error after a single
\* attempt: every call makes exactly one TcpListener::bind, a failed one
\* makes the call return Err, and a TcpServer exists only for the addresses
\* of the calls that returned Ok.
C24_BindFailsOnce ==
    /\ Len(listener_binds) = Len(bind_calls)
    /\ \A i \in 1..Len(bind_calls) :
        /\ listener_binds[i].address = bind_calls[i].address
        /\ bind_calls[i].result = (IF listener_binds[i].ok THEN "Ok" ELSE "Err")
    /\ tcp_servers = {bind_calls[i].address :
                        i \in {j \in 1..Len(bind_calls) : bind_calls[j].result = "Ok"}}

C24_FailedBindLeavesNoServer ==
    /\ Len(bind_calls) = 3
    /\ {bind_calls[i].fn : i \in 1..3} = {"bind", "bind_default", "bind_addr"}
    /\ \A i \in 1..3 : bind_calls[i].result = "Err"
    /\ tcp_servers = {}

\* the bytes the first n operations of the call handed to the socket
RECURSIVE BytesWritten(_)
BytesWritten(n) ==
    IF n = 0 THEN 0
    ELSE BytesWritten(n - 1) +
         (IF io_steps[n].op = "send_raw" /\ io_steps[n].ok THEN io_steps[n].len ELSE 0)

\* the length field of the header the call wrote
AnnouncedLength ==
    LET i == CHOOSE j \in 1..Len(io_steps) : io_steps[j].announces # None
    IN  io_steps[i].announces[1]

\* C25: for every send operation that returns Ok, send_file_chunked on a
\* file that another process appends to or truncates during the call
\* included, the length field of the header written equals the number of
\* payload bytes written after it.
C25_HeaderLengthIsPayloadWritten ==
    io_result = "Ok" =>
        AnnouncedLength = BytesWritten(Len(io_steps)) - HEADER_SIZE

\* the socket writes of the call that carry `what`
WritesOf(what) ==
    {i \in 1..Len(io_steps) : io_steps[i].op = "send_raw" /\ io_steps[i].what = what}

\* the offset in the file at which the chunk written by operation i must
\* start: right after the chunk written before it
ChunkOffset(i) ==
    LET earlier == {j \in WritesOf("chunk") : j < i}
        p == CHOOSE j \in earlier : \A k \in earlier : k <= j
    IN  IF earlier = {} THEN 0 ELSE io_steps[p].at + io_steps[p].len

\* C26: send_file_chunked writes the header exactly once and the metadata
\* exactly once before any file content, then the content in chunks of at
\* most CHUNK_SIZE bytes in file order, each chunk being what one non-empty
\* read returned; it stops at the first zero-length read; when a write or a
\* read fails it returns the error at once and writes nothing further.
C26_ChunkedWriteOrder ==
    method = "send_file_chunked" =>
        /\ Cardinality(WritesOf("header")) <= 1
        /\ Cardinality(WritesOf("meta")) <= 1
        /\ WritesOf("frame") = {}
        /\ \A m \in WritesOf("meta") :
            \E h \in WritesOf("header") : h < m /\ io_steps[h].ok
        /\ \A c \in WritesOf("chunk") :
            /\ \E m \in WritesOf("meta") : m < c /\ io_steps[m].ok
            /\ io_steps[c].len \in 1..CHUNK_SIZE
            /\ io_steps[c].at = ChunkOffset(c)
            /\ io_steps[c - 1].op = "file_read"
            /\ io_steps[c - 1].ok
            /\ io_steps[c - 1].at = io_steps[c].at
            /\ io_steps[c - 1].len = io_steps[c].len
        /\ \A i \in 1..Len(io_steps) :
            /\ (io_steps[i].op = "file_read" /\ io_steps[i].ok /\ io_steps[i].len = 0) =>
                i = Len(io_steps) /\ io_result = "Ok"
            /\ (io_steps[i].op = "file_read" /\ io_steps[i].ok /\ io_steps[i].len > 0) =>
                i + 1 \in WritesOf("chunk")
            /\ ~io_steps[i].ok => i = Len(io_steps) /\ io_result = "Err"
        /\ io_result = "Ok" =>
            /\ Cardinality(WritesOf("header")) = 1
            /\ Cardinality(WritesOf("meta")) = 1
            /\ Last(io_steps).op = "file_read"
            /\ Last(io_steps).len = 0

C26_FullAndPartialChunkThenEnd ==
    /\ method = "send_file_chunked"
    /\ io_result = "Ok"
    /\ \E c \in WritesOf("chunk") : io_steps[c].len = CHUNK_SIZE
    /\ \E c \in WritesOf("chunk") : io_steps[c].len = 1 /\ io_steps[c].at = CHUNK_SIZE
    /\ file_changes = 0

----------------------------------------------------------------------------
(* A header with an unknown type tag *)

\* the 9 bytes at position pos of the stream carry a type tag outside 1..5
BadTagAt(pos) ==
    /\ Len(stream) - pos >= HEADER_SIZE
    /\ stream[pos + 1] \notin 1..5

\* C27: when recv_message reads a header whose type tag is not one of 1..5
\* it returns an InvalidData error having consumed exactly the 9 header
\* bytes; it neither closes, reconnects nor resynchronizes the connection,
\* and the next recv_message starts at the byte right after those 9 bytes.
C27_BadTagConsumesHeaderOnly ==
    [][(received' # received \/ rpos' # rpos) =>
        /\ received'.start = rpos
        /\ rpos' = received'.pos
        /\ BadTagAt(rpos) =>
            /\ received'.result = "Err"
            /\ received'.error = "InvalidData"
            /\ received'.pos = rpos + HEADER_SIZE
            /\ UNCHANGED <<stream, stream_end, side, connVars>>]_vars

C27_NextRecvAfterBadHeader ==
    /\ side = "client"
    /\ BadTagAt(0)
    /\ Len(stream) > HEADER_SIZE
    /\ received.start = HEADER_SIZE
    /\ received.result = "Err"

----------------------------------------------------------------------------
(* Threads and connections in run_threaded *)

\* C28: in run_threaded every accepted connection is handed to exactly one
\* handler invocation, on its own newly spawned thread that alone owns the
\* connection: one thread per accepted connection, no connection in two
\* threads or handled twice or left with the listener, and no limit on the
\* handler threads alive at once (the loop accepts whatever their number).
C28_OneThreadPerConnection ==
    /\ Len(threads) = Len(accept_log)
    /\ \A t \in 1..Len(threads) :
        /\ threads[t].conn = accept_log[t]
        /\ \A u \in 1..Len(threads) : threads[u].conn = threads[t].conn => u = t
        /\ threads[t].calls = (IF conns[threads[t].conn] = "spawned" THEN 0 ELSE 1)
        /\ \A i \in 1..Len(backlog) : backlog[i] # threads[t].conn
    /\ \A c \in Clients :
        (conns[c] \notin {"absent", "pending"}) =>
            \E t \in 1..Len(threads) : threads[t].conn = c
    /\ (listener_pc = "accept" /\ backlog # <<>>) => ENABLED ThreadedAccept

C28_AllHandlersBlockedAtOnce ==
    /\ mode = "run_threaded"
    /\ Len(threads) = MaxClients
    /\ \A c \in Clients : conns[c] = "blocked"
    /\ \A t \in 1..Len(threads) : threads[t].calls = 1

\* the thread spawned for connection c has ended
Ended(c) == conns[c] \in {"finished", "failed", "panicked"}

\* C29: run_threaded has no exit: in every reachable state the loop is at
\* accept, whatever the handlers do or return and whatever accept errors
\* occur; a handler thread ends only by its handler(conn) call ending.
C29_NoExit ==
    /\ [](mode = "run_threaded" => listener_pc = "accept")
    /\ [][\A c \in Clients :
            (Ended(c)' /\ ~Ended(c)) =>
                /\ conns[c] = "handling"
                /\ threads[ThreadOf(c)].calls = 1]_vars

C29_StillAcceptingAfterEverything ==
    /\ mode = "run_threaded"
    /\ listener_pc = "accept"
    /\ accept_errors >= 1
    /\ conns[1] = "finished"
    /\ conns[2] = "panicked"
    /\ conns[3] = "blocked"
    /\ backlog # <<>>

----------------------------------------------------------------------------
(* The range of the backoff delay *)

\* position i of the history is the sleep that follows a callback returning true
SleepAfterCallbackTrue(i) ==
    /\ i > 1
    /\ events[i].ev = "sleep"
    /\ events[i - 1].ev = "callback_true"

\* C30: in connect_forever and connect_until_success the backoff delay is
\* always between 1000 ms and 30000 ms; it decreases only by the reset to
\* 1000 ms on a successful connection; in connect_forever the sleep between
\* a callback returning true and the next attempt is exactly 1000 ms, so the
\* delay does not grow across consecutive successful connections.
C30_DelayRange ==
    /\ [](call \in {"connect_forever", "connect_until_success"} =>
            /\ delay_ms >= RECONNECT_INITIAL_MS
            /\ delay_ms <= RECONNECT_MAX_MS
            /\ \A i \in 1..Len(events) :
                /\ events[i].ev = "sleep" =>
                    events[i].ms \in RECONNECT_INITIAL_MS..RECONNECT_MAX_MS
                /\ SleepAfterCallbackTrue(i) =>
                    /\ events[i].ms = RECONNECT_INITIAL_MS
                    /\ i < Len(events) => IsAttempt(events[i + 1]))
    /\ [][delay_ms' < delay_ms =>
            /\ delay_ms' = RECONNECT_INITIAL_MS
            /\ Last(events').ev = "connect_ok"]_vars

C30_TwoSuccessesAfterGrowth ==
    /\ call = "connect_forever"
    /\ Len(events) = 10
    /\ events[4] = Event("sleep", 1500, FALSE)
    /\ events[5].ev = "connect_ok"
    /\ events[6].ev = "callback_true"
    /\ events[7] = Event("sleep", 1000, FALSE)
    /\ events[8].ev = "connect_ok"
    /\ events[9].ev = "callback_true"
    /\ events[10] = Event("sleep", 1000, FALSE)

====
